---- MODULE Spec2Model ----
(***************************************************************************)
(* The two dune stanza filters of the opam feedstock:                      *)
(*   recipe/building/remove_context_flags_stanzas.py  (character scanner)  *)
(*   recipe/building/remove_menhir_stanzas.py         (line scanner)       *)
(* and the entry points around them: main of both scripts, and main of    *)
(*   recipe/testing/test-opam-functional.py           (opam smoke test)    *)
(*   recipe/testing/test-opam-activation.py           (activation test)    *)
(* A text is a sequence of one-character strings.  Indices i, j, start are *)
(* the 0-based indices of the Python code; At(s, i) is s[i].  A path is a  *)
(* sequence of its components.                                             *)
(***************************************************************************)
EXTENDS Integers, Sequences, FiniteSets, TLC

\* one run of a filter on one text
VARIABLES mode, pc, file, content, lines, i, result, removed_count, reported, units

\* what each earlier run of the filter on the same file left
VARIABLES previous

\* the process around it: arguments, environment, file system, streams, and
\* where main is (mpc), what it opened and called, and what it returned (rc)
VARIABLES argv, environ, cwd, dirs, fs, mpc, base, dune_path, stdout, stderr,
          opened, called, rc

\* the smoke test: its platform, the test root on disk, where main is (tpc),
\* the commands it ran and the result of the last one
VARIABLES is_windows, machine, ocaml_version, test_root, tpc, ran, cmd_result

\* the activation test: the checks it evaluated and its all_ok
VARIABLES all_ok, checked

filtervars == <<mode, pc, file, content, lines, i, result, removed_count, reported, units,
                previous>>
mainvars == <<argv, environ, cwd, dirs, fs, mpc, base, dune_path, stdout, stderr,
              opened, called, rc>>
testvars == <<is_windows, machine, ocaml_version, test_root, tpc, ran, cmd_result,
              all_ok, checked>>

vars == <<filtervars, mainvars, testvars>>

(***************************************************************************)
(* Bounds of the explored inputs.                                          *)
(***************************************************************************)
MaxChunksA == 4
MaxChunksB == 4

(***************************************************************************)
(* Python string primitives.                                               *)
(***************************************************************************)
At(s, k) == s[k + 1]

\* s[a:b]
Slice(s, a, b) == SubSeq(s, a + 1, b)

Min(a, b) == IF a < b THEN a ELSE b

UpperChars == <<"A","B","C","D","E","F","G","H","I","J","K","L","M","N","O","P","Q","R","S","T","U","V","W","X","Y","Z">>
LowerChars == <<"a","b","c","d","e","f","g","h","i","j","k","l","m","n","o","p","q","r","s","t","u","v","w","x","y","z">>
DigitChars == <<"0","1","2","3","4","5","6","7","8","9">>

Range(f) == {f[k] : k \in DOMAIN f}

\* the least element of a non-empty set of integers
SetMin(S) == CHOOSE x \in S : \A y \in S : x <= y

\* the running sums of a sequence of integers
RECURSIVE PrefixSums(_)
PrefixSums(d) ==
    IF Len(d) <= 1 THEN d
    ELSE CHOOSE sums \in {L \o [k \in 1..Len(R) |-> R[k] + L[Len(L)]] :
                              L \in {PrefixSums(SubSeq(d, 1, Len(d) \div 2))},
                              R \in {PrefixSums(SubSeq(d, Len(d) \div 2 + 1, Len(d)))}} : TRUE

LowerChar(c) ==
    IF \E k \in DOMAIN UpperChars : UpperChars[k] = c
    THEN LowerChars[CHOOSE k \in DOMAIN UpperChars : UpperChars[k] = c]
    ELSE c

\* str.lower()
Lower(s) == [k \in 1..Len(s) |-> LowerChar(s[k])]

\* s.startswith(p)
StartsWith(s, p) == Len(s) >= Len(p) /\ SubSeq(s, 1, Len(p)) = p

\* p in s
Contains(s, p) == \E k \in 1..(Len(s) - Len(p) + 1) : SubSeq(s, k, k + Len(p) - 1) = p

\* s.count(c) for a one-character c
Count(s, c) == Cardinality({k \in 1..Len(s) : s[k] = c})

\* the positions of the newlines of s, in order
Newlines(s) ==
    LET N == {k \in 1..Len(s) : s[k] = "\n"}
    IN [n \in 1..Cardinality(N) |-> CHOOSE k \in N : Cardinality({m \in N : m < k}) = n - 1]

SplitLines(s) ==
    LET nl == Newlines(s)
        all == [n \in 1..(Len(nl) + 1) |->
                   SubSeq(s, IF n = 1 THEN 1 ELSE nl[n - 1] + 1,
                             IF n = Len(nl) + 1 THEN Len(s) ELSE nl[n] - 1)]
    IN IF Len(all) > 1 /\ all[Len(all)] = <<>> THEN SubSeq(all, 1, Len(all) - 1) ELSE all

\* s.split('\n'): the pieces between the newlines, one more than there are newlines
Split(s) ==
    LET nl == Newlines(s)
    IN [n \in 1..(Len(nl) + 1) |->
           SubSeq(s, IF n = 1 THEN 1 ELSE nl[n - 1] + 1,
                     IF n = Len(nl) + 1 THEN Len(s) ELSE nl[n] - 1)]

\* ''.join(pieces)
RECURSIVE Concat(_)
Concat(pieces) ==
    IF pieces = <<>> THEN <<>>
    ELSE IF Len(pieces) = 1 THEN pieces[1]
    ELSE LET h == Len(pieces) \div 2
         IN Concat(SubSeq(pieces, 1, h)) \o Concat(SubSeq(pieces, h + 1, Len(pieces)))

\* '\n'.join(ls)
Join(ls) ==
    Concat([k \in 1..Len(ls) |-> IF k = 1 THEN ls[k] ELSE <<"\n">> \o ls[k]])

\* the characters str.strip() removes
PyWhitespace == {" ", "\t", "\n", "\r", "\f"}

\* s.strip()
Strip(s) ==
    IF \A k \in 1..Len(s) : s[k] \in PyWhitespace THEN <<>>
    ELSE LET first == CHOOSE k \in 1..Len(s) :
                          s[k] \notin PyWhitespace /\ \A m \in 1..(k - 1) : s[m] \in PyWhitespace
             last == CHOOSE k \in 1..Len(s) :
                          s[k] \notin PyWhitespace /\ \A m \in (k + 1)..Len(s) : s[m] \in PyWhitespace
         IN SubSeq(s, first, last)

\* \w of the re module
WordChars == Range(UpperChars) \cup Range(LowerChars) \cup Range(DigitChars) \cup {"_"}

IsWordChar(c) == c \in WordChars

(***************************************************************************)
(* remove_context_flags_stanzas.py                                         *)
(***************************************************************************)
ScanWhitespace == {" ", "\t", "\n"}

KwContextFlags == <<"c","o","n","t","e","x","t","_","f","l","a","g","s">>
KwClibs == <<"c","l","i","b","s",".","s","e","x","p">>
KwCxxflags == <<"c","x","x","f","l","a","g","s",".","s","e","x","p">>
KwCflags == <<"c","f","l","a","g","s",".","s","e","x","p">>
KwFlags == <<"f","l","a","g","s",".","s","e","x","p">>
KwTarget == <<"(","t","a","r","g","e","t">>

DisabledPrefix == <<";"," ","D","I","S","A","B","L","E","D"," ","f","o","r"," ","c","r","o","s","s","-","c","o","m","p","i","l","a","t","i","o","n",":"," ">>
DisabledSuffix == <<".",".",".","\n">>
FirstLineMax == 60

CommentEndSemicolonOnly(s, k) == k + 1

CommentEndStuck(s, k) == k

\* the comment loop: the index of the next '\n' at or after k, or len(content)
CommentEnd(s, k) ==
    LET N == {j \in k..(Len(s) - 1) : At(s, j) = "\n"}
    IN IF N = {} THEN Len(s) ELSE SetMin(N)

SexpEndFirstClose(s, k, depth) ==
    LET N == {j \in k..(Len(s) - 1) : At(s, j) = ")"}
    IN IF N = {} THEN Len(s) ELSE SetMin(N) + 1

SexpEndUnclosedOne(s, k, depth) ==
    LET delta == [m \in 1..(Len(s) - k) |->
                     IF At(s, k + m - 1) = "(" THEN 1
                     ELSE IF At(s, k + m - 1) = ")" THEN -1
                     ELSE 0]
        sums == PrefixSums(delta)
        closed == {m \in 1..Len(delta) : depth + sums[m] = 0}
    IN IF closed = {} THEN k ELSE k + SetMin(closed)

\* the depth loop entered at index k with the given depth: the index after the
\* character that brings depth to 0, or len(content)
SexpEnd(s, k, depth) ==
    LET delta == [m \in 1..(Len(s) - k) |->
                     IF At(s, k + m - 1) = "(" THEN 1
                     ELSE IF At(s, k + m - 1) = ")" THEN -1
                     ELSE 0]
        sums == PrefixSums(delta)
        \* depth after the character at index k + m - 1
        closed == {m \in 1..Len(delta) : depth + sums[m] = 0}
    IN IF closed = {} THEN Len(s) ELSE k + SetMin(closed)

ShouldRemoveNoLower(sexp) ==
    \/ Contains(sexp, KwContextFlags)
    \/ Contains(sexp, KwClibs)
    \/ Contains(sexp, KwCxxflags)
    \/ Contains(sexp, KwCflags)
    \/ (Contains(sexp, KwFlags) /\ Contains(sexp, KwTarget))

ShouldRemoveAnyFlags(sexp) ==
    LET sexp_lower == Lower(sexp) IN
    \/ Contains(sexp_lower, KwContextFlags)
    \/ Contains(sexp_lower, KwClibs)
    \/ Contains(sexp_lower, KwCxxflags)
    \/ Contains(sexp_lower, KwCflags)
    \/ Contains(sexp_lower, KwFlags)

ShouldRemove(sexp) ==
    LET sexp_lower == Lower(sexp) IN
    \/ Contains(sexp_lower, KwContextFlags)
    \/ Contains(sexp_lower, KwClibs)
    \/ Contains(sexp_lower, KwCxxflags)
    \/ Contains(sexp_lower, KwCflags)
    \/ (Contains(sexp_lower, KwFlags) /\ Contains(sexp_lower, KwTarget))

MarkerBare(sexp) ==
    LET first_line == LET l == Split(sexp)[1] IN SubSeq(l, 1, Min(FirstLineMax, Len(l)))
    IN Tail(DisabledPrefix) \o first_line \o DisabledSuffix

MarkerWholeLine(sexp) ==
    DisabledPrefix \o Split(sexp)[1] \o DisabledSuffix

\* f'; DISABLED for cross-compilation: {first_line}...\n'
Marker(sexp) ==
    LET first_line == LET l == Split(sexp)[1] IN SubSeq(l, 1, Min(FirstLineMax, Len(l)))
    IN DisabledPrefix \o first_line \o DisabledSuffix

Unit(kind, text, out) == [kind |-> kind, text |-> text, out |-> out]

AReadFile ==
    /\ mode = "A" /\ pc = "start"
    /\ content' = file
    /\ pc' = "scan"
    /\ UNCHANGED <<previous, mode, file, lines, i, result, removed_count, reported, units>>

AWhitespace ==
    /\ mode = "A" /\ pc = "scan"
    /\ i < Len(content)
    /\ At(content, i) \in ScanWhitespace
    /\ result' = Append(result, <<At(content, i)>>)
    /\ i' = i + 1
    /\ units' = Append(units, Unit("space", <<At(content, i)>>, <<At(content, i)>>))
    /\ UNCHANGED <<previous, mode, pc, file, content, lines, removed_count, reported>>

AComment ==
    /\ mode = "A" /\ pc = "scan"
    /\ i < Len(content)
    /\ At(content, i) = ";"
    /\ LET j == CommentEnd(content, i) IN
         /\ result' = result \o [k \in 1..(j - i) |-> <<At(content, i + k - 1)>>]
         /\ i' = j
         /\ units' = Append(units, Unit("comment", Slice(content, i, j), Slice(content, i, j)))
    /\ UNCHANGED <<previous, mode, pc, file, content, lines, removed_count, reported>>

AddRemovedNever(n) == n

AddRemoved(n) == n + 1

ASexp ==
    /\ mode = "A" /\ pc = "scan"
    /\ i < Len(content)
    /\ At(content, i) = "("
    /\ \E j \in {SexpEnd(content, i + 1, 1)} :
       \E sexp \in {Slice(content, i, j)} :
       \E remove \in {ShouldRemove(sexp)} :
       \E piece \in {IF remove THEN Marker(sexp) ELSE sexp} :
         /\ result' = Append(result, piece)
         /\ removed_count' = IF remove THEN AddRemoved(removed_count) ELSE removed_count
         /\ i' = j
         /\ units' = Append(units, Unit("sexp", sexp, piece))
    /\ UNCHANGED <<previous, mode, pc, file, content, lines, reported>>

AStray ==
    /\ mode = "A" /\ pc = "scan"
    /\ i < Len(content)
    /\ At(content, i) \notin ScanWhitespace \cup {";", "("}
    /\ result' = Append(result, <<At(content, i)>>)
    /\ i' = i + 1
    /\ units' = Append(units, Unit("stray", <<At(content, i)>>, <<At(content, i)>>))
    /\ UNCHANGED <<previous, mode, pc, file, content, lines, removed_count, reported>>

AWriteFile ==
    /\ mode = "A" /\ pc = "scan"
    /\ ~(i < Len(content))
    /\ file' = Concat(result)
    /\ reported' = removed_count
    /\ pc' = "done"
    /\ UNCHANGED <<previous, mode, content, lines, i, result, removed_count, units>>

(***************************************************************************)
(* remove_menhir_stanzas.py                                                *)
(***************************************************************************)
HeadMenhir == <<"(","m","e","n","h","i","r">>
HeadRule == <<"(","r","u","l","e">>
WordMenhir == <<"m","e","n","h","i","r">>

ReasonNone == <<>>
ReasonMenhir == <<"m","e","n","h","i","r"," ","s","t","a","n","z","a">>
ReasonRule == <<"r","u","l","e"," ","i","n","v","o","k","i","n","g"," ","m","e","n","h","i","r">>

RemovedMark == <<";"," ","R","E","M","O","V","E","D">>

NetOpens(line) == Count(line, "(")

\* line.count('(') - line.count(')')
Net(line) == Count(line, "(") - Count(line, ")")

RECURSIVE StanzaEndUntilZero(_, _, _)
StanzaEndUntilZero(ls, j, depth) ==
    IF depth # 0 /\ j < Len(ls)
    THEN StanzaEndUntilZero(ls, j + 1, depth + Net(At(ls, j)))
    ELSE j

StanzaEndSingle(ls, j, depth) == j

\* the collection loop: the index j after the last line of the stanza
RECURSIVE StanzaEnd(_, _, _)
StanzaEnd(ls, j, depth) ==
    IF depth > 0 /\ j < Len(ls)
    THEN StanzaEnd(ls, j + 1, depth + Net(At(ls, j)))
    ELSE j

HasSubstringMenhir(text) == Contains(text, WordMenhir)

\* re.search(r'\bmenhir\b', text)
HasWordMenhir(text) ==
    \E k \in 0..(Len(text) - Len(WordMenhir)) :
        /\ Slice(text, k, k + Len(WordMenhir)) = WordMenhir
        /\ (k = 0 \/ ~IsWordChar(At(text, k - 1)))
        /\ (k + Len(WordMenhir) = Len(text) \/ ~IsWordChar(At(text, k + Len(WordMenhir))))

\* should_remove / reason; ReasonNone when should_remove stays False
Reason(stripped, stanza_content) ==
    IF StartsWith(stripped, HeadMenhir) THEN ReasonMenhir
    ELSE IF StartsWith(stripped, HeadRule) /\ HasWordMenhir(stanza_content) THEN ReasonRule
    ELSE ReasonNone

RemovedBehind(reason, sl) == sl \o <<" ">> \o RemovedMark \o <<" ", "(">> \o reason \o <<")">>

\* f"; REMOVED ({reason}): {sl}"
Removed(reason, sl) == RemovedMark \o <<" ", "(">> \o reason \o <<")", ":", " ">> \o sl

EmitFirstOnly(reason, stanza_lines) ==
    IF reason = ReasonNone THEN stanza_lines
    ELSE <<Removed(reason, stanza_lines[1])>> \o Tail(stanza_lines)

\* the lines appended to result for one collected stanza
Emit(reason, stanza_lines) ==
    IF reason = ReasonNone THEN stanza_lines
    ELSE [k \in 1..Len(stanza_lines) |-> Removed(reason, stanza_lines[k])]

CountRemovedStanzas(patched_lines) ==
    Cardinality({k \in 1..Len(patched_lines) :
        /\ StartsWith(patched_lines[k], RemovedMark)
        /\ (k = 1 \/ ~StartsWith(patched_lines[k - 1], RemovedMark))})

\* sum(1 for l in patched_lines if l.startswith('; REMOVED'))
CountRemoved(patched_lines) ==
    Cardinality({k \in 1..Len(patched_lines) : StartsWith(patched_lines[k], RemovedMark)})

BReadFile ==
    /\ mode = "B" /\ pc = "start"
    /\ content' = file
    /\ lines' = Split(file)
    /\ pc' = "scan"
    /\ UNCHANGED <<previous, mode, file, i, result, removed_count, reported, units>>

BStanza ==
    /\ mode = "B" /\ pc = "scan"
    /\ i < Len(lines)
    /\ StartsWith(At(lines, i), <<"(">>)
    /\ LET line == At(lines, i)
           stripped == Strip(line)
           j == StanzaEnd(lines, i + 1, Net(line))
           stanza_lines == Slice(lines, i, j)
           stanza_content == Join(stanza_lines)
           out == Emit(Reason(stripped, stanza_content), stanza_lines)
       IN
         /\ result' = result \o out
         /\ i' = j
         /\ units' = Append(units, Unit("stanza", stanza_lines, out))
    /\ UNCHANGED <<previous, mode, pc, file, content, lines, removed_count, reported>>

BLine ==
    /\ mode = "B" /\ pc = "scan"
    /\ i < Len(lines)
    /\ ~StartsWith(At(lines, i), <<"(">>)
    /\ result' = Append(result, At(lines, i))
    /\ i' = i + 1
    /\ units' = Append(units, Unit("line", <<At(lines, i)>>, <<At(lines, i)>>))
    /\ UNCHANGED <<previous, mode, pc, file, content, lines, removed_count, reported>>

BWriteFile ==
    /\ mode = "B" /\ pc = "scan"
    /\ ~(i < Len(lines))
    /\ LET patched == Join(result) IN
         /\ file' = patched
         /\ removed_count' = CountRemoved(Split(patched))
         /\ reported' = CountRemoved(Split(patched))
    /\ pc' = "done"
    /\ UNCHANGED <<previous, mode, content, lines, i, result, units>>

(***************************************************************************)
(* The explored inputs: every text made of at most MaxChunks pieces of the *)
(* dune vocabulary the filters react to, and the documented scenarios.     *)
(***************************************************************************)
RECURSIVE Texts(_, _)
Texts(chunks, n) ==
    IF n = 0 THEN {<<>>}
    ELSE LET T == Texts(chunks, n - 1) IN T \cup {t \o c : t \in T, c \in chunks}

LongHead == <<"(","a","a","a","a","a","a","a","a","a","a","a","a","a","a","a","a","a","a","a","a","a","a","a","a","a","a","a","a","a","a","a","a","a","a","a","a","a","a","a","a","a","a","a","a","a","a","a">>
UpperClibs == <<"C","L","I","B","S",".","S","E","X","P">>
MixedContextFlags == <<"C","o","n","t","e","x","t","_","F","l","a","g","s">>

ChunksA ==
    {<<"(">>, <<")">>, <<"\n">>, <<";">>, <<"c">>, MixedContextFlags, KwFlags, KwTarget}

\* one stanza around each keyword of the predicate, short and longer than FirstLineMax
KeywordStanzasA ==
    {h \o k \o t :
        h \in {<<"(">>, LongHead},
        k \in {KwContextFlags, KwClibs, UpperClibs, KwCxxflags, KwCflags, KwFlags,
                KwFlags \o KwTarget, <<"x">>},
        t \in {<<")">>, <<"\n", ")", "\n">>, <<")", "(", ")">>}}

ChunksB ==
    {HeadMenhir, HeadRule, <<"(","l","i","b">>, WordMenhir, <<"L">>,
     <<")">>, <<"\n">>, <<" ">>, RemovedMark}

ScenarioA == <<"(","r","u","l","e"," ","(","d","e","p","s"," ","c","o","n","t","e","x","t","_","f","l","a","g","s",".","e","x","e",")"," ","(","t","a","r","g","e","t"," ","o","u","t",")",")","\n","(","l","i","b","r","a","r","y"," ","(","n","a","m","e"," ","f","o","o",")",")","\n">>
ScenarioB == <<"(","m","e","n","h","i","r"," ","(","m","o","d","u","l","e","s"," ","p","a","r","s","e","r",")",")","\n","(","l","i","b","r","a","r","y"," ","(","n","a","m","e"," ","b","a","r",")",")","\n">>
ScenarioRule == <<"(","r","u","l","e"," ","(","a","c","t","i","o","n"," ","(","r","u","n"," ","m","e","n","h","i","r"," ","-","-","e","x","p","l","a","i","n",")",")",")","\n">>

InputsA == Texts(ChunksA, MaxChunksA) \cup KeywordStanzasA \cup {ScenarioA}
InputsB == Texts(ChunksB, MaxChunksB) \cup {ScenarioB, ScenarioRule}

\* no script's main and no smoke test is running
MainIdle ==
    /\ argv = <<>> /\ environ = <<>> /\ cwd = <<>> /\ dirs = {} /\ fs = <<>>
    /\ mpc = "idle" /\ base = <<>> /\ dune_path = <<>>
    /\ stdout = <<>> /\ stderr = <<>> /\ opened = <<>> /\ called = <<>> /\ rc = -1

TestIdle ==
    /\ is_windows = FALSE /\ machine = <<>> /\ ocaml_version = <<>>
    /\ test_root = FALSE /\ tpc = "idle" /\ ran = <<>> /\ cmd_result = <<>>
    /\ all_ok = TRUE /\ checked = <<>>

Init ==
    /\ MainIdle /\ TestIdle
    /\ mode \in {"A", "B"}
    /\ file \in (IF mode = "A" THEN InputsA ELSE InputsB)
    /\ pc = "start"
    /\ content = <<>>
    /\ lines = <<>>
    /\ i = 0
    /\ result = <<>>
    /\ removed_count = 0
    /\ reported = -1
    /\ units = <<>>
    /\ previous = <<>>

Next ==
    \/ AReadFile /\ UNCHANGED <<mainvars, testvars>>
    \/ AWhitespace /\ UNCHANGED <<mainvars, testvars>>
    \/ AComment /\ UNCHANGED <<mainvars, testvars>>
    \/ ASexp /\ UNCHANGED <<mainvars, testvars>>
    \/ AStray /\ UNCHANGED <<mainvars, testvars>>
    \/ AWriteFile /\ UNCHANGED <<mainvars, testvars>>
    \/ BReadFile /\ UNCHANGED <<mainvars, testvars>>
    \/ BStanza /\ UNCHANGED <<mainvars, testvars>>
    \/ BLine /\ UNCHANGED <<mainvars, testvars>>
    \/ BWriteFile /\ UNCHANGED <<mainvars, testvars>>

Spec == Init /\ [][Next]_vars

(***************************************************************************)
(* The removal predicates as the specification words them, written without *)
(* the operators of the filters.                                           *)
(***************************************************************************)
\* kw occurs in text, letters compared without regard to case
ContainsCI(text, kw) ==
    \E k \in 1..(Len(text) - Len(kw) + 1) :
        \A m \in 1..Len(kw) : LowerChar(text[k + m - 1]) = kw[m]

PredicateA(text) ==
    \/ ContainsCI(text, KwContextFlags)
    \/ ContainsCI(text, KwClibs)
    \/ ContainsCI(text, KwCxxflags)
    \/ ContainsCI(text, KwCflags)
    \/ (ContainsCI(text, KwFlags) /\ ContainsCI(text, KwTarget))

\* the words of a text: its maximal runs of word characters
Words(text) ==
    LET inword == {k \in 1..Len(text) : text[k] \in WordChars}
        starts == {k \in inword : k - 1 \notin inword}
        ends == {k \in inword : k + 1 \notin inword}
    IN {SubSeq(text, a, SetMin({b \in ends : b >= a})) : a \in starts}

\* the text of a stanza: its lines with a newline between two of them
RECURSIVE StanzaText(_)
StanzaText(ls) ==
    IF Len(ls) = 1 THEN ls[1]
    ELSE ls[1] \o <<"\n">> \o StanzaText(Tail(ls))

\* the reason Predicate B gives for a stanza, <<>> for a stanza it keeps
PredicateB(ls) ==
    IF StartsWith(ls[1], HeadMenhir) THEN ReasonMenhir
    ELSE IF StartsWith(ls[1], HeadRule) /\ WordMenhir \in Words(StanzaText(ls)) THEN ReasonRule
    ELSE <<>>

\* the line "; REMOVED (<reason>): <line>"
Commented(reason, line) ==
    <<";"," ","R","E","M","O","V","E","D"," ","(">> \o reason \o <<")",":"," ">> \o line

\* a top-level unit for which the removal predicate of its filter holds
Matches(u) ==
    \/ mode = "A" /\ u.kind = "sexp" /\ PredicateA(u.text)
    \/ mode = "B" /\ u.kind = "stanza" /\ PredicateB(u.text) # <<>>

Candidates == {k \in DOMAIN units : units[k].kind \in {"sexp", "stanza"}}

\* C1: when no top-level unit of the input satisfies the removal predicate,
\* the text either filter writes back is character for character the input
\* it read, whitespace, comments, stray text and final newline included.
NoOpIdentity ==
    (pc = "done" /\ \A k \in DOMAIN units : ~Matches(units[k])) => file = content

NoOpIdentityWitness ==
    /\ pc = "done"
    /\ \A k \in DOMAIN units : ~Matches(units[k])
    /\ Candidates # {}
    /\ Len(units) >= 3
    /\ content # <<>> /\ content[Len(content)] = "\n"

\* C2: the character filter replaces a scanned expression by its marker
\* exactly when the expression's text, compared case-insensitively, contains
\* context_flags, clibs.sexp, cxxflags.sexp, cflags.sexp, or both flags.sexp
\* and (target; every other expression is emitted as it is.
PredicateADecision ==
    \A k \in DOMAIN units :
        (mode = "A" /\ units[k].kind = "sexp") =>
            /\ PredicateA(units[k].text) =>
                   /\ units[k].out # units[k].text
                   /\ StartsWith(units[k].out, DisabledPrefix)
            /\ ~PredicateA(units[k].text) => units[k].out = units[k].text

PredicateADecisionWitness ==
    /\ mode = "A"
    /\ \E k \in DOMAIN units :
        /\ units[k].kind = "sexp"
        /\ units[k].out # units[k].text
        /\ ~Contains(units[k].text, KwContextFlags)
        /\ ContainsCI(units[k].text, KwContextFlags)
    /\ \E k \in DOMAIN units :
        /\ units[k].kind = "sexp"
        /\ units[k].out = units[k].text

\* C3 as stated: an expression whose text contains flags.sexp but not (target
\* is kept, and one that contains both is removed.
NarrowRuleAsStated ==
    \A k \in DOMAIN units :
        (mode = "A" /\ units[k].kind = "sexp" /\ Contains(units[k].text, KwFlags)) =>
            IF Contains(units[k].text, KwTarget)
            THEN units[k].out # units[k].text
            ELSE units[k].out = units[k].text

\* C3, amended: an expression whose text contains flags.sexp is kept when it
\* contains, compared case-insensitively, none of (target, context_flags,
\* clibs.sexp, cxxflags.sexp and cflags.sexp; one whose text contains both
\* flags.sexp and (target is removed.
NarrowRule ==
    \A k \in DOMAIN units :
        (mode = "A" /\ units[k].kind = "sexp" /\ Contains(units[k].text, KwFlags)) =>
            /\ Contains(units[k].text, KwTarget) => units[k].out # units[k].text
            /\ (/\ ~ContainsCI(units[k].text, KwTarget)
                /\ ~ContainsCI(units[k].text, KwContextFlags)
                /\ ~ContainsCI(units[k].text, KwClibs)
                /\ ~ContainsCI(units[k].text, KwCxxflags)
                /\ ~ContainsCI(units[k].text, KwCflags)) => units[k].out = units[k].text

NarrowRuleWitness ==
    /\ mode = "A" /\ pc = "done"
    /\ \E k \in DOMAIN units :
        /\ units[k].kind = "sexp"
        /\ Contains(units[k].text, KwFlags)
        /\ units[k].out = units[k].text
        /\ units[k].text[Len(units[k].text)] = ")"

CloseIndex(text) ==
    LET opens == PrefixSums([k \in 1..Len(text) |-> IF text[k] = "(" THEN 1 ELSE 0])
        closes == PrefixSums([k \in 1..Len(text) |-> IF text[k] = ")" THEN 1 ELSE 0])
        balanced == {k \in 1..Len(text) : opens[k] = closes[k]}
    IN IF balanced = {} THEN 0 ELSE SetMin(balanced)

FirstExpr(text) ==
    IF CloseIndex(text) = 0 THEN text ELSE SubSeq(text, 1, CloseIndex(text))

\* the expression is (kw ...): kw is its whole head keyword
HeadIs(text, kw) ==
    /\ StartsWith(text, <<"(">> \o kw)
    /\ \/ Len(text) = Len(kw) + 1
       \/ text[Len(kw) + 2] \in PyWhitespace \cup {"(", ")", ";", "\""}

\* C5 as stated: the line filter comments out a top-level expression only if
\* it is a (menhir ...) form, or a (rule ...) form whose content has the
\* standalone word menhir; nothing else of the input is commented out, so a
\* commented-out stanza is one such expression and nothing more.
OnlyMenhirInvocationsCommented ==
    \A k \in DOMAIN units :
        (mode = "B" /\ units[k].kind = "stanza" /\ units[k].out # units[k].text) =>
            LET text == StanzaText(units[k].text)
                expr == FirstExpr(text)
            IN /\ \/ HeadIs(expr, WordMenhir)
                  \/ HeadIs(expr, <<"r","u","l","e">>) /\ WordMenhir \in Words(expr)
               /\ Strip(text) = expr

\* the lines of a text: what stands before, between and after its newlines
RECURSIVE LinesOf(_)
LinesOf(text) ==
    LET nl == {k \in 1..Len(text) : text[k] = "\n"}
    IN IF nl = {} THEN <<text>>
       ELSE <<SubSeq(text, 1, SetMin(nl) - 1)>> \o LinesOf(SubSeq(text, SetMin(nl) + 1, Len(text)))

\* the first n characters of the first line of a text
FirstChars(text, n) ==
    LET nl == {k \in 1..Len(text) : text[k] = "\n"}
        len == IF nl = {} THEN Len(text) ELSE SetMin(nl) - 1
    IN SubSeq(text, 1, IF len < n THEN len ELSE n)

DisabledLine(text) ==
    <<";"," ","D","I","S","A","B","L","E","D"," ","f","o","r"," ","c","r","o","s","s","-","c","o","m","p","i","l","a","t","i","o","n",":"," ">>
        \o FirstChars(text, 60) \o <<".", ".", ".", "\n">>

\* C6: the units the character filter scans tile the input in order; each
\* scanned expression is a whole top-level expression (closed by its last
\* character, or running to the end of the input); the output is the input
\* with each removed expression replaced by its one-line marker, made of the
\* first 60 characters of its first line, and every other unit copied.
CharRewrite ==
    (mode = "A" /\ pc = "done") =>
        /\ Concat([k \in DOMAIN units |-> units[k].text]) = content
        /\ \A k \in DOMAIN units :
              units[k].kind = "sexp" =>
                  \/ CloseIndex(units[k].text) = Len(units[k].text)
                  \/ CloseIndex(units[k].text) = 0 /\ k = Len(units)
        /\ file = Concat([k \in DOMAIN units |->
                      IF units[k].kind = "sexp" /\ PredicateA(units[k].text)
                      THEN DisabledLine(units[k].text)
                      ELSE units[k].text])

CharRewriteWitness ==
    /\ mode = "A" /\ pc = "done"
    /\ Len(units) >= 2
    /\ \E k \in DOMAIN units :
        /\ units[k].kind = "sexp"
        /\ PredicateA(units[k].text)
        /\ Len(LinesOf(units[k].text)[1]) > 60
        /\ k < Len(units)

ScenarioAFirstLineAsStated == <<";"," ","D","I","S","A","B","L","E","D"," ","f","o","r"," ","c","r","o","s","s","-","c","o","m","p","i","l","a","t","i","o","n",":"," ","(","r","u","l","e"," ","(","d","e","p","s"," ","c","o","n","t","e","x","t","_","f","l","a","g","s",".","e","x","e",")"," ","(","t","a","r","g","e","t"," ","o","u","t",".",".",".">>
ScenarioALibraryLine == <<"(","l","i","b","r","a","r","y"," ","(","n","a","m","e"," ","f","o","o",")",")">>
ScenarioAOutput == <<";"," ","D","I","S","A","B","L","E","D"," ","f","o","r"," ","c","r","o","s","s","-","c","o","m","p","i","l","a","t","i","o","n",":"," ","(","r","u","l","e"," ","(","d","e","p","s"," ","c","o","n","t","e","x","t","_","f","l","a","g","s",".","e","x","e",")"," ","(","t","a","r","g","e","t"," ","o","u","t",")",")",".",".",".","\n","\n","(","l","i","b","r","a","r","y"," ","(","n","a","m","e"," ","f","o","o",")",")","\n">>

\* C7 as stated: on the scenario input the first output line is the marker
\* ending in "(target out...", the second line is the unchanged library
\* stanza, and the reported count is 1.
ScenarioAAsStated ==
    (mode = "A" /\ pc = "done" /\ content = ScenarioA) =>
        /\ LinesOf(file)[1] = ScenarioAFirstLineAsStated
        /\ LinesOf(file)[2] = ScenarioALibraryLine
        /\ reported = 1

\* C7, amended: on the scenario input the first output line is the marker
\* with the whole 44-character first line, "... (target out))...", an empty
\* line follows it, the unchanged library stanza is the third line, and the
\* reported count is 1.
ScenarioAResult ==
    (mode = "A" /\ pc = "done" /\ content = ScenarioA) =>
        /\ file = ScenarioAOutput
        /\ reported = 1

ScenarioAWitness ==
    /\ mode = "A" /\ pc = "done" /\ content = ScenarioA
    /\ LinesOf(file)[3] = ScenarioALibraryLine

\* the number of input lines (line filter) or input characters (character
\* filter) that stand before unit k
Offset(k) == Len(Concat([m \in 1..(k - 1) |-> units[m].text]))

\* opening minus closing parentheses of a run of lines
NetParens(ls) == Count(StanzaText(ls), "(") - Count(StanzaText(ls), ")")

\* C8: the line filter's output has as many lines as its input; output line
\* k is input line k, or input line k behind "; REMOVED (<reason>): " with
\* reason "menhir stanza" or "rule invoking menhir"; the lines of one
\* collected stanza are all unchanged or all commented with one reason.
LinesPreserved ==
    (mode = "B" /\ pc = "done") =>
        LET inl == LinesOf(content)
            outl == LinesOf(file)
        IN /\ Len(outl) = Len(inl)
           /\ \A k \in 1..Len(inl) :
                \/ outl[k] = inl[k]
                \/ \E reason \in {ReasonMenhir, ReasonRule} : outl[k] = Commented(reason, inl[k])
           /\ \A k \in DOMAIN units :
                LET ls == units[k].text IN
                \/ \A n \in 1..Len(ls) : outl[Offset(k) + n] = inl[Offset(k) + n]
                \/ \E reason \in {ReasonMenhir, ReasonRule} :
                       \A n \in 1..Len(ls) : outl[Offset(k) + n] = Commented(reason, inl[Offset(k) + n])

LinesPreservedWitness ==
    /\ mode = "B" /\ pc = "done"
    /\ \E k \in DOMAIN units :
        /\ units[k].kind = "stanza"
        /\ Len(units[k].text) >= 2
        /\ PredicateB(units[k].text) # <<>>
        /\ k < Len(units)

\* C9 as stated: in both modes the reported count is the number of
\* top-level units for which the removal predicate returned true.
CountIsMatchedUnits ==
    pc = "done" => reported = Cardinality({k \in DOMAIN units : Matches(units[k])})

\* C9, amended: the character filter reports the number of expressions for
\* which the predicate returned true; the line filter reports the number of
\* output lines that start with "; REMOVED", which is the number of lines of
\* the stanzas for which the predicate returned true plus the number of
\* other input lines that already start with "; REMOVED".
CountAccuracy ==
    pc = "done" =>
        /\ mode = "A" => reported = Cardinality({k \in DOMAIN units : Matches(units[k])})
        /\ mode = "B" =>
             reported = Cardinality(
                 {p \in UNION {{<<k, n>> : n \in 1..Len(units[k].text)} : k \in DOMAIN units} :
                     \/ Matches(units[p[1]])
                     \/ StartsWith(units[p[1]].text[p[2]], <<";"," ","R","E","M","O","V","E","D">>)})

CountAccuracyWitness ==
    /\ mode = "B" /\ pc = "done"
    /\ \E k \in DOMAIN units : Matches(units[k]) /\ Len(units[k].text) >= 2
    /\ \E k \in DOMAIN units :
        /\ ~Matches(units[k])
        /\ StartsWith(units[k].text[1], <<";"," ","R","E","M","O","V","E","D">>)

\* C10: the units of the line filter tile the input lines; a stanza keeps
\* collecting the following lines while its parentheses are open, so a line
\* inside it never starts a stanza of its own; and every line of a stanza
\* whose first line starts with neither (menhir nor (rule is emitted
\* unchanged, also when a later line of it starts with (menhir.
TopLevelOnly ==
    (mode = "B" /\ pc = "done") =>
        LET inl == LinesOf(content)
            outl == LinesOf(file)
        IN /\ Concat([k \in DOMAIN units |-> units[k].text]) = inl
           /\ \A k \in DOMAIN units :
                units[k].kind = "stanza" =>
                    LET ls == units[k].text IN
                    /\ \A n \in 1..(Len(ls) - 1) : NetParens(SubSeq(ls, 1, n)) > 0
                    /\ NetParens(ls) <= 0 \/ k = Len(units)
                    /\ (~StartsWith(ls[1], HeadMenhir) /\ ~StartsWith(ls[1], HeadRule)) =>
                           \A n \in 1..Len(ls) : outl[Offset(k) + n] = ls[n]

TopLevelOnlyWitness ==
    /\ mode = "B" /\ pc = "done"
    /\ \E k \in DOMAIN units :
        /\ units[k].kind = "stanza"
        /\ ~StartsWith(units[k].text[1], HeadMenhir)
        /\ ~StartsWith(units[k].text[1], HeadRule)
        /\ \E n \in 2..Len(units[k].text) : StartsWith(units[k].text[n], HeadMenhir)

\* what the specification has the character filter emit for a scanned unit
OutOf(u) ==
    IF u.kind = "sexp" /\ PredicateA(u.text) THEN DisabledLine(u.text) ELSE u.text

\* the number of output characters before what is emitted for unit k
OutOff(k) == Len(Concat([m \in 1..(k - 1) |-> OutOf(units[m])]))

\* a text without its line comments (each from a ";" up to the end of its line)
WithoutComments(text) ==
    LET keep == {p \in 1..Len(text) :
                    ~\E q \in 1..p : text[q] = ";" /\ \A r \in q..p : text[r] # "\n"}
    IN [n \in 1..Cardinality(keep) |->
           text[CHOOSE p \in keep : Cardinality({q \in keep : q < p}) = n - 1]]

\* C11 as stated: no line comment of the input belongs to the text the
\* removal predicate is evaluated on, and every comment is copied: a removed
\* expression holds no comment, and the decision for an expression is the
\* decision for its text without comments.
CommentsNeverMatched ==
    \A k \in DOMAIN units :
        (mode = "A" /\ units[k].kind = "sexp") =>
            /\ units[k].out # units[k].text => ~Contains(units[k].text, <<";">>)
            /\ (units[k].out # units[k].text) <=> PredicateA(WithoutComments(units[k].text))

\* C11, amended: every line comment that starts outside any expression (a
\* ";" met by the top-level scan, up to the end of its line) is copied
\* verbatim to the output and belongs to no expression's text, so a keyword
\* that occurs only in such comments removes nothing; a ";" inside a
\* parenthesised expression is part of that expression's text.
TopLevelCommentsCopied ==
    (mode = "A" /\ pc = "done") =>
        /\ \A k \in DOMAIN units :
              units[k].kind = "comment" =>
                  LET t == units[k].text IN
                  /\ t[1] = ";"
                  /\ ~Contains(t, <<"\n">>)
                  /\ SubSeq(content, Offset(k) + 1, Offset(k) + Len(t)) = t
                  /\ Offset(k) + Len(t) = Len(content) \/ content[Offset(k) + Len(t) + 1] = "\n"
                  /\ SubSeq(file, OutOff(k) + 1, OutOff(k) + Len(t)) = t
        /\ reported = Cardinality({k \in DOMAIN units :
                                      units[k].kind = "sexp" /\ PredicateA(units[k].text)})

TopLevelCommentsCopiedWitness ==
    /\ mode = "A" /\ pc = "done"
    /\ reported = 0
    /\ \E k \in DOMAIN units : units[k].kind = "sexp"
    /\ \E k \in DOMAIN units :
          units[k].kind = "comment" /\ ContainsCI(units[k].text, KwContextFlags)

\* C12: every expression the character scanner produces starts with "(";
\* one that ends before the end of the text ends with ")", has as many "("
\* as ")" and no shorter balanced prefix; an expression with unequal counts
\* runs to the end of the text and is closed nowhere.
ParenBalance ==
    (mode = "A" /\ pc = "done") =>
        \A k \in DOMAIN units :
            units[k].kind = "sexp" =>
                LET t == units[k].text
                    end == Offset(k) + Len(t)
                IN /\ t[1] = "("
                   /\ end < Len(content) =>
                         /\ t[Len(t)] = ")"
                         /\ Count(t, "(") = Count(t, ")")
                         /\ CloseIndex(t) = Len(t)
                   /\ Count(t, "(") # Count(t, ")") =>
                         /\ end = Len(content)
                         /\ CloseIndex(t) = 0

ParenBalanceWitness ==
    /\ mode = "A" /\ pc = "done"
    /\ \E k \in DOMAIN units :
        /\ units[k].kind = "sexp"
        /\ Count(units[k].text, "(") >= 3
        /\ Offset(k) + Len(units[k].text) < Len(content)

\* C13 as stated: a stanza starts at a line whose first character is "(",
\* other lines pass through unchanged, and the stanza ends at the first line
\* where the summed paren balance is 0, or at the end of the input.
StanzaEndsAtZero ==
    \A k \in DOMAIN units :
        mode = "B" =>
            /\ units[k].kind = "stanza" =>
                   /\ StartsWith(units[k].text[1], <<"(">>)
                   /\ \A n \in 1..(Len(units[k].text) - 1) :
                          NetParens(SubSeq(units[k].text, 1, n)) # 0
                   /\ \/ NetParens(units[k].text) = 0
                      \/ Offset(k) + Len(units[k].text) = Len(lines)
            /\ units[k].kind = "line" =>
                   /\ ~StartsWith(units[k].text[1], <<"(">>)
                   /\ units[k].out = units[k].text

\* C13, amended: a stanza starts at a line, not collected into an earlier
\* stanza, whose first character is "("; other such lines pass through
\* unchanged; the stanza takes the following lines while the summed paren
\* balance is above 0 and ends at the first line where the sum is 0 or
\* below, or at the end of the input.
StanzaCollection ==
    \A k \in DOMAIN units :
        mode = "B" =>
            /\ units[k].kind = "stanza" =>
                   /\ StartsWith(units[k].text[1], <<"(">>)
                   /\ units[k].text = SubSeq(lines, Offset(k) + 1, Offset(k) + Len(units[k].text))
                   /\ \A n \in 1..(Len(units[k].text) - 1) :
                          NetParens(SubSeq(units[k].text, 1, n)) > 0
                   /\ \/ NetParens(units[k].text) <= 0
                      \/ Offset(k) + Len(units[k].text) = Len(lines)
            /\ units[k].kind = "line" =>
                   /\ ~StartsWith(units[k].text[1], <<"(">>)
                   /\ units[k].text = <<lines[Offset(k) + 1]>>
                   /\ units[k].out = units[k].text

StanzaCollectionWitness ==
    /\ mode = "B" /\ pc = "done"
    /\ \E k \in DOMAIN units :
        /\ units[k].kind = "stanza"
        /\ Len(units[k].text) >= 2
        /\ NetParens(units[k].text) < 0

\* C18: a character-filter expression that nothing closes, and a
\* line-filter stanza whose balance stays above 0, is the last unit scanned
\* and runs from its opening "(" (its start line) to the end of the input;
\* the predicate decides on it as on any other candidate: when it matches,
\* the output ends with one marker in place of the whole remainder
\* (character filter) or with every remaining line commented out (line
\* filter), otherwise with the remainder unchanged; the run ends normally.
UnterminatedTrailing ==
    pc = "done" =>
        \A k \in DOMAIN units :
            /\ (mode = "A" /\ units[k].kind = "sexp" /\ CloseIndex(units[k].text) = 0) =>
                  LET t == units[k].text IN
                  /\ k = Len(units)
                  /\ t = SubSeq(content, Offset(k) + 1, Len(content))
                  /\ file = SubSeq(file, 1, OutOff(k))
                                \o (IF PredicateA(t) THEN DisabledLine(t) ELSE t)
            /\ (/\ mode = "B" /\ units[k].kind = "stanza"
                /\ \A n \in 1..Len(units[k].text) :
                       NetParens(SubSeq(units[k].text, 1, n)) > 0) =>
                  LET ls == units[k].text
                      reason == PredicateB(ls)
                      outlines == LinesOf(file)
                  IN /\ k = Len(units)
                     /\ ls = SubSeq(lines, Offset(k) + 1, Len(lines))
                     /\ Len(outlines) = Len(lines)
                     /\ \A n \in 1..Len(ls) :
                            outlines[Offset(k) + n] =
                                IF reason = <<>> THEN ls[n] ELSE Commented(reason, ls[n])

UnterminatedTrailingWitness ==
    /\ mode = "B" /\ pc = "done"
    /\ Len(units) >= 2
    /\ LET ls == units[Len(units)].text IN
        /\ units[Len(units)].kind = "stanza"
        /\ Len(ls) >= 2
        /\ NetParens(ls) > 0
        /\ PredicateB(ls) # <<>>

\* the fair behaviours of the filters, a run that can take a step takes one,
\* on every text of at most MaxChunksFair pieces
MaxChunksFair == 4
ChunksFairA == {<<"(">>, <<")">>, <<"\n">>, <<";">>, <<"c">>}
ChunksFairB == {<<"(">>, <<")">>, <<"\n">>, <<" ">>}
InputsFairA ==
    Texts(ChunksFairA, MaxChunksFair)
        \cup {<<"(">> \o KwCflags \o t : t \in {<<")">>, <<"\n">>}}
InputsFairB ==
    Texts(ChunksFairB, MaxChunksFair)
        \cup {HeadMenhir \o t : t \in {<<")">>, <<"\n", "(">>}}

InitFair ==
    /\ MainIdle /\ TestIdle
    /\ mode \in {"A", "B"}
    /\ file \in (IF mode = "A" THEN InputsFairA ELSE InputsFairB)
    /\ pc = "start"
    /\ content = <<>>
    /\ lines = <<>>
    /\ i = 0
    /\ result = <<>>
    /\ removed_count = 0
    /\ reported = -1
    /\ units = <<>>
    /\ previous = <<>>

FairSpec == InitFair /\ [][Next]_vars /\ WF_vars(Next)

\* one iteration of either outer loop moves the scan position forward and
\* scans exactly the input between the old and the new position as one unit
ForwardStep ==
    (pc = "scan" /\ pc' = "scan") =>
        /\ i' > i
        /\ Len(units') = Len(units) + 1
        /\ SubSeq(units', 1, Len(units)) = units
        /\ LET u == units'[Len(units')] IN
            IF mode = "A"
            THEN /\ u.kind \in {"space", "comment", "sexp", "stray"}
                 /\ u.text = SubSeq(content, i + 1, i')
            ELSE /\ u.kind \in {"line", "stanza"}
                 /\ u.text = SubSeq(lines, i + 1, i')

\* at the end the scanned units are the input, in order and without gap or
\* overlap, and the empty input gives the empty output
DoneTiling ==
    pc = "done" =>
        /\ Concat([k \in DOMAIN units |-> units[k].text]) = (IF mode = "A" THEN content ELSE lines)
        /\ i = (IF mode = "A" THEN Len(content) ELSE Len(lines))
        /\ content = <<>> => file = <<>>

\* C19: in both filters the scan position strictly increases on every
\* iteration of the outer loop, every input character or line belongs to
\* exactly one scanned unit, and every run reaches Done; the empty input
\* yields the empty output.
SinglePass == [][ForwardStep]_vars /\ []DoneTiling /\ <>(pc = "done")

SinglePassWitness ==
    /\ pc = "done"
    /\ Len(units) >= 2
    /\ \E k \in DOMAIN units : units[k].kind \in {"sexp", "stanza"} /\ Len(units[k].text) >= 2

(***************************************************************************)
(* The file system and the streams the scripts' main functions work on.    *)
(* fs maps the path of every file system entry the scripts may open to its *)
(* kind ("file", "dir", or "binary" for a file that is not decodable       *)
(* text), its permission ("rw" or "ro") and its text; dirs holds the       *)
(* src_ext directories.                                                    *)
(***************************************************************************)
Entry(kind, perm, text) == [kind |-> kind, perm |-> perm, text |-> text]

\* an absolute path starts with the empty component; any other path names a
\* place below the working directory
Resolve(p) ==
    IF p # <<>> /\ p[1] = "" THEN p
    ELSE IF p # <<>> /\ p[1] = "." THEN cwd \o Tail(p)
    ELSE cwd \o p

\* os.path.isdir(p)
IsDir(p) ==
    IF Resolve(p) \in DOMAIN fs THEN fs[Resolve(p)].kind = "dir" ELSE Resolve(p) \in dirs

ExistsAlways(p) == TRUE

\* os.path.exists(p)
Exists(p) == Resolve(p) \in DOMAIN fs \/ Resolve(p) \in dirs

ReadableOrMissing(p) ==
    Resolve(p) \in DOMAIN fs => fs[Resolve(p)].kind = "file"

\* open(p, 'r') and f.read() succeed
Readable(p) == Resolve(p) \in DOMAIN fs /\ fs[Resolve(p)].kind = "file"

\* open(p, 'w') succeeds: it creates a missing file and truncates a writable one
Writable(p) ==
    IF Resolve(p) \in DOMAIN fs
    THEN fs[Resolve(p)].kind = "file" /\ fs[Resolve(p)].perm = "rw"
    ELSE TRUE

\* the text at p, where there is one
TextAt(p) ==
    IF Resolve(p) \in DOMAIN fs /\ fs[Resolve(p)].kind = "file"
    THEN fs[Resolve(p)].text
    ELSE <<>>

\* the file system after f.write(text) on p
Written(p, text) ==
    [q \in DOMAIN fs \cup {Resolve(p)} |->
        IF q = Resolve(p) THEN Entry("file", "rw", text) ELSE fs[q]]

\* one printed line
Line(kind, path, n) == [kind |-> kind, path |-> path, n |-> n]

\* the filter has not been entered
FilterIdle(m) ==
    /\ mode = m /\ pc = "idle" /\ file = <<>> /\ content = <<>> /\ lines = <<>>
    /\ i = 0 /\ result = <<>> /\ removed_count = 0 /\ reported = -1 /\ units = <<>>
    /\ previous = <<>>

(***************************************************************************)
(* remove_context_flags_stanzas.py: main                                   *)
(***************************************************************************)
SrcRoot == <<"", "s">>
WorkRoot == <<"", "w">>
OpamDir == <<"opam">>
SrcExt == <<"src_ext">>

\* the two paths main filters, below base
DunePaths ==
    << <<"src_ext", "mccs", "src", "dune">>,
       <<"src_ext", "mccs", "src", "glpk", "dune">> >>

\* os.environ.get(key, default)
EnvGet(env, key, default) == IF key \in DOMAIN env THEN env[key] ELSE default

BaseSrcDirFirst(src_dir, wd) ==
    IF IsDir(src_dir \o SrcExt) THEN src_dir
    ELSE IF IsDir(wd \o SrcExt) THEN wd
    ELSE src_dir

\* the base directory main settles on
Base(src_dir, wd) ==
    LET opam_dir == src_dir \o OpamDir IN
    IF IsDir(opam_dir \o SrcExt) THEN opam_dir
    ELSE IF IsDir(wd \o SrcExt) THEN wd
    ELSE src_dir

\* main up to its first call: resolves base and prints the two header lines
CFMain ==
    /\ mpc = "main"
    /\ LET src_dir == EnvGet(environ, "SRC_DIR", <<".">>) IN
         /\ base' = Base(src_dir, cwd)
         /\ stdout' = stdout \o <<Line("banner", <<>>, 0), Line("info", base', 0)>>
    /\ mpc' = "call"
    /\ UNCHANGED <<filtervars, testvars, argv, environ, cwd, dirs, fs, dune_path,
                   stderr, opened, called, rc>>

\* where main goes when the call on the path just added to called is over
AfterCall(done) == IF Len(done) = Len(DunePaths) THEN "exit" ELSE "call"

\* remove_context_flags_stanzas(dune_path) on a path that does not exist
CFSkip ==
    /\ mpc = "call"
    /\ LET path == base \o DunePaths[Len(called) + 1] IN
         /\ ~Exists(path)
         /\ dune_path' = path
         /\ called' = Append(called, path)
         /\ stdout' = Append(stdout, Line("skip", path, 0))
         /\ mpc' = AfterCall(called')
    /\ UNCHANGED <<filtervars, testvars, argv, environ, cwd, dirs, fs, base,
                   stderr, opened, rc>>

\* remove_context_flags_stanzas(dune_path) on a path that exists: the call
\* goes on to open it
CFEnter ==
    /\ mpc = "call"
    /\ LET path == base \o DunePaths[Len(called) + 1] IN
         /\ Exists(path)
         /\ dune_path' = path
         /\ called' = Append(called, path)
         /\ file' = TextAt(path)
    /\ mpc' = "in"
    /\ mode' = "A" /\ pc' = "start"
    /\ content' = <<>> /\ lines' = <<>> /\ i' = 0 /\ result' = <<>>
    /\ removed_count' = 0 /\ reported' = -1 /\ units' = <<>>
    /\ UNCHANGED <<previous, testvars, argv, environ, cwd, dirs, fs, base, stdout, stderr,
                   opened, rc>>

\* open(dune_path, 'r') and f.read()
CFRead ==
    /\ mpc = "in"
    /\ Readable(dune_path)
    /\ AReadFile
    /\ opened' = Append(opened, <<dune_path, "r">>)
    /\ UNCHANGED <<testvars, argv, environ, cwd, dirs, fs, mpc, base, dune_path,
                   stdout, stderr, called, rc>>

\* open or read raise (a directory, undecodable bytes): nothing catches it
CFReadFails ==
    /\ mpc = "in" /\ pc = "start"
    /\ ~Readable(dune_path)
    /\ mpc' = "raised"
    /\ UNCHANGED <<filtervars, testvars, argv, environ, cwd, dirs, fs, base,
                   dune_path, stdout, stderr, opened, called, rc>>

\* open(dune_path, 'w'), f.write(''.join(result)) and the Rewrote line
CFWrite ==
    /\ mpc = "in"
    /\ Writable(dune_path)
    /\ AWriteFile
    /\ fs' = Written(dune_path, file')
    /\ opened' = Append(opened, <<dune_path, "w">>)
    /\ stdout' = Append(stdout, Line("rewrote", dune_path, removed_count))
    /\ mpc' = AfterCall(called)
    /\ UNCHANGED <<testvars, argv, environ, cwd, dirs, base, dune_path, stderr,
                   called, rc>>

\* open(dune_path, 'w') raises (a read-only file): nothing catches it
CFWriteFails ==
    /\ mpc = "in" /\ mode = "A" /\ pc = "scan"
    /\ ~(i < Len(content))
    /\ ~Writable(dune_path)
    /\ mpc' = "raised"
    /\ UNCHANGED <<filtervars, testvars, argv, environ, cwd, dirs, fs, base,
                   dune_path, stdout, stderr, opened, called, rc>>

\* the dune files main may meet
DuneKept == <<";", "c", "\n", "(", "c", ")", "\n", "c">>
DuneRemoved == <<"(">> \o KwCflags \o <<")", "\n">>
DuneEntries ==
    {Entry("file", "rw", DuneKept), Entry("file", "rw", DuneRemoved),
     Entry("file", "ro", DuneRemoved), Entry("dir", "rw", <<>>),
     Entry("binary", "rw", <<>>)}

\* the directories that may have a src_ext subdirectory
BaseDirs == {SrcRoot, SrcRoot \o OpamDir, WorkRoot, WorkRoot \o OpamDir}

\* which of the two dune paths a path below a base directory is
DuneIndex(p) ==
    IF Len(p) >= 2 /\ SubSeq(p, Len(p) - 1, Len(p)) = <<"glpk", "dune">> THEN 2 ELSE 1

InitContextFlags ==
    /\ FilterIdle("A") /\ TestIdle
    /\ argv = <<>>
    /\ environ \in {<<>>, [k \in {"SRC_DIR"} |-> SrcRoot]}
    /\ cwd \in {WorkRoot, SrcRoot \o OpamDir}
    /\ dirs \in SUBSET {b \o SrcExt : b \in BaseDirs}
    /\ \E st \in [{1, 2} -> DuneEntries \cup {Entry("missing", "rw", <<>>)}] :
          fs = [p \in {b \o DunePaths[n] :
                           b \in {b \in BaseDirs : b \o SrcExt \in dirs},
                           n \in {n \in {1, 2} : st[n].kind # "missing"}}
                    |-> st[DuneIndex(p)]]
    /\ mpc = "main" /\ base = <<>> /\ dune_path = <<>>
    /\ stdout = <<>> /\ stderr = <<>> /\ opened = <<>> /\ called = <<>> /\ rc = -1

NextContextFlags ==
    \/ CFMain
    \/ CFSkip
    \/ CFEnter
    \/ CFRead
    \/ CFReadFails
    \/ mpc = "in" /\ AWhitespace /\ UNCHANGED <<mainvars, testvars>>
    \/ mpc = "in" /\ AComment /\ UNCHANGED <<mainvars, testvars>>
    \/ mpc = "in" /\ ASexp /\ UNCHANGED <<mainvars, testvars>>
    \/ mpc = "in" /\ AStray /\ UNCHANGED <<mainvars, testvars>>
    \/ CFWrite
    \/ CFWriteFails

SpecContextFlags == InitContextFlags /\ [][NextContextFlags]_vars

\* the path of the call main is about to make, and whether anything is there
NextPath == base \o DunePaths[Len(called) + 1]
NothingAt(p) == Resolve(p) \notin DOMAIN fs /\ Resolve(p) \notin dirs

\* a call on a missing path prints the skip line and touches nothing
SkipStep ==
    (mpc = "call" /\ NothingAt(NextPath)) =>
        /\ stdout' = Append(stdout, Line("skip", NextPath, 0))
        /\ fs' = fs /\ dirs' = dirs
        /\ opened' = opened
        /\ called' = Append(called, NextPath)
        /\ mpc' = (IF Len(called) = 0 THEN "call" ELSE "exit")

\* C14 as stated: main runs the filter on the second path whatever happened
\* to the first, so main never ends before its second call.
SecondPathAlwaysRun ==
    mpc \in {"exit", "raised"} =>
        /\ Len(called) = 2
        /\ called[2] = base \o DunePaths[2]

\* C14, amended: on a path that does not exist the filter prints the skip
\* line and returns without creating, reading or writing any file; main
\* calls the filter on the second path when the first was skipped or
\* rewritten; main ends before that only when reading or writing the first
\* file raises an I/O error, which nothing in the script handles.
MissingInputPerFile ==
    /\ [][SkipStep]_vars
    /\ [](mpc = "exit" => called = <<base \o DunePaths[1], base \o DunePaths[2]>>)
    /\ [](mpc = "raised" =>
            /\ called # <<>>
            /\ dune_path = called[Len(called)]
            /\ ~NothingAt(dune_path)
            /\ \/ Resolve(dune_path) \in dirs
               \/ fs[Resolve(dune_path)].kind # "file"
               \/ fs[Resolve(dune_path)].perm # "rw")

MissingInputPerFileWitness ==
    /\ mpc = "exit"
    /\ Len(stdout) = 4
    /\ stdout[3] = Line("skip", base \o DunePaths[1], 0)
    /\ stdout[4] = Line("rewrote", base \o DunePaths[2], 1)
    /\ opened = <<<<base \o DunePaths[2], "r">>, <<base \o DunePaths[2], "w">>>>

\* C17 as stated: base is (the directory named by) the source directory when
\* that has a src_ext subdirectory, otherwise the working directory when
\* that has one, otherwise the source directory.
BaseAsStated ==
    mpc \in {"call", "in", "exit", "raised"} =>
        LET src_dir == IF "SRC_DIR" \in DOMAIN environ THEN environ["SRC_DIR"] ELSE <<".">>
        IN Resolve(base) = Resolve(IF Resolve(src_dir \o SrcExt) \in dirs THEN src_dir
                                   ELSE IF Resolve(cwd \o SrcExt) \in dirs THEN cwd
                                   ELSE src_dir)

\* C17, amended: base is <SRC_DIR>/opam (SRC_DIR defaults to ".") when
\* that directory has a src_ext subdirectory; otherwise the current working
\* directory when that has a src_ext subdirectory; otherwise the source
\* directory itself, whether or not it has one; the filtered paths are
\* <base>/src_ext/mccs/src/dune and then <base>/src_ext/mccs/src/glpk/dune.
BaseResolution ==
    mpc \in {"call", "in", "exit", "raised"} =>
        LET src_dir == IF "SRC_DIR" \in DOMAIN environ THEN environ["SRC_DIR"] ELSE <<".">>
            expected == IF Resolve(src_dir \o <<"opam", "src_ext">>) \in dirs
                        THEN src_dir \o <<"opam">>
                        ELSE IF Resolve(cwd \o <<"src_ext">>) \in dirs THEN cwd
                        ELSE src_dir
        IN /\ base = expected
           /\ \A n \in 1..Len(called) :
                 called[n] = expected \o (IF n = 1 THEN <<"src_ext", "mccs", "src", "dune">>
                                          ELSE <<"src_ext", "mccs", "src", "glpk", "dune">>)
           /\ Len(called) <= 2
           /\ mpc = "exit" => Len(called) = 2

BaseResolutionWitness ==
    /\ mpc = "exit"
    /\ "SRC_DIR" \in DOMAIN environ
    /\ base = environ["SRC_DIR"] \o <<"opam">>
    /\ environ["SRC_DIR"] \o <<"src_ext">> \in dirs
    /\ cwd \o <<"src_ext">> \in dirs
    /\ \E n \in 1..Len(stdout) : stdout[n].kind = "rewrote"

(***************************************************************************)
(* remove_menhir_stanzas.py: main                                          *)
(***************************************************************************)
ArgcAtLeast(args) == Len(args) >= 2

\* not (len(sys.argv) != 2)
ArgcOk(args) == Len(args) = 2

\* dune_file = sys.argv[1]
dune_file == argv[2]

\* wrong argument count: usage on standard error, return 1
MUsage ==
    /\ mpc = "main" /\ pc = "start"
    /\ ~ArgcOk(argv)
    /\ stderr' = Append(stderr, Line("usage", <<>>, 0))
    /\ rc' = 1
    /\ mpc' = "exit"
    /\ UNCHANGED <<filtervars, testvars, argv, environ, cwd, dirs, fs, base,
                   dune_path, stdout, opened, called>>

\* except FileNotFoundError
MNotFound ==
    /\ mpc = "main" /\ pc = "start"
    /\ ArgcOk(argv)
    /\ Resolve(dune_file) \notin DOMAIN fs
    /\ ~Readable(dune_file)
    /\ stderr' = Append(stderr, Line("not found", dune_file, 0))
    /\ rc' = 1
    /\ mpc' = "exit"
    /\ UNCHANGED <<filtervars, testvars, argv, environ, cwd, dirs, fs, base,
                   dune_path, stdout, opened, called>>

\* except IOError
MReadError ==
    /\ mpc = "main" /\ pc = "start"
    /\ ArgcOk(argv)
    /\ Resolve(dune_file) \in DOMAIN fs
    /\ fs[Resolve(dune_file)].kind = "dir"
    /\ ~Readable(dune_file)
    /\ stderr' = Append(stderr, Line("reading", dune_file, 0))
    /\ rc' = 1
    /\ mpc' = "exit"
    /\ UNCHANGED <<filtervars, testvars, argv, environ, cwd, dirs, fs, base,
                   dune_path, stdout, opened, called>>

\* f.read() raises UnicodeDecodeError, which is no IOError: it leaves main
MDecodeError ==
    /\ mpc = "main" /\ pc = "start"
    /\ ArgcOk(argv)
    /\ Resolve(dune_file) \in DOMAIN fs
    /\ fs[Resolve(dune_file)].kind = "binary"
    /\ ~Readable(dune_file)
    /\ opened' = Append(opened, <<dune_file, "r">>)
    /\ mpc' = "raised"
    /\ UNCHANGED <<filtervars, testvars, argv, environ, cwd, dirs, fs, base,
                   dune_path, stdout, stderr, called, rc>>

\* open(dune_file, 'r') and f.read()
MRead ==
    /\ mpc = "main"
    /\ ArgcOk(argv)
    /\ Readable(dune_file)
    /\ BReadFile
    /\ opened' = Append(opened, <<dune_file, "r">>)
    /\ UNCHANGED <<testvars, argv, environ, cwd, dirs, fs, mpc, base, dune_path,
                   stdout, stderr, called, rc>>

\* open(dune_file, 'w'), f.write(patched), the Processed line, return 0
MWrite ==
    /\ mpc = "main"
    /\ ArgcOk(argv)
    /\ Writable(dune_file)
    /\ BWriteFile
    /\ fs' = Written(dune_file, file')
    /\ opened' = Append(opened, <<dune_file, "w">>)
    /\ stdout' = Append(stdout, Line("processed", dune_file, reported'))
    /\ rc' = 0
    /\ mpc' = "exit"
    /\ UNCHANGED <<testvars, argv, environ, cwd, dirs, base, dune_path, stderr, called>>

\* except IOError around the write
MWriteError ==
    /\ mpc = "main" /\ mode = "B" /\ pc = "scan"
    /\ ~(i < Len(lines))
    /\ ArgcOk(argv)
    /\ ~Writable(dune_file)
    /\ stderr' = Append(stderr, Line("writing", dune_file, 0))
    /\ rc' = 1
    /\ mpc' = "exit"
    /\ UNCHANGED <<filtervars, testvars, argv, environ, cwd, dirs, fs, base,
                   dune_path, stdout, opened, called>>

\* the command lines and the files main may meet
MaxChunksMain == 2
Prog == <<"remove_menhir_stanzas.py">>
DuneFile == <<"dune">>
ArgvSet == {<<Prog>>, <<Prog, DuneFile>>, <<Prog, DuneFile, DuneFile>>}
MenhirEntries ==
    {Entry("dir", "rw", <<>>), Entry("binary", "rw", <<>>)}
        \cup {Entry("file", perm, text) :
                 perm \in {"rw", "ro"}, text \in Texts(ChunksB, MaxChunksMain)}

InitMenhir ==
    /\ TestIdle
    /\ argv \in ArgvSet
    /\ environ = <<>>
    /\ cwd = WorkRoot
    /\ dirs = {}
    /\ fs \in {<<>>} \cup {[p \in {WorkRoot \o DuneFile} |-> e] : e \in MenhirEntries}
    /\ mpc = "main" /\ base = <<>> /\ dune_path = <<>>
    /\ stdout = <<>> /\ stderr = <<>> /\ opened = <<>> /\ called = <<>> /\ rc = -1
    /\ mode = "B" /\ pc = "start"
    /\ file = TextAt(DuneFile)
    /\ content = <<>> /\ lines = <<>> /\ i = 0 /\ result = <<>>
    /\ removed_count = 0 /\ reported = -1 /\ units = <<>>
    /\ previous = <<>>

NextMenhir ==
    \/ MUsage
    \/ MNotFound
    \/ MReadError
    \/ MDecodeError
    \/ MRead
    \/ mpc = "main" /\ BStanza /\ UNCHANGED <<mainvars, testvars>>
    \/ mpc = "main" /\ BLine /\ UNCHANGED <<mainvars, testvars>>
    \/ MWrite
    \/ MWriteError

SpecMenhir == InitMenhir /\ [][NextMenhir]_vars

\* what main was started on
OneArgument == Len(argv) = 2
TargetKind ==
    IF ~OneArgument THEN "none"
    ELSE IF cwd \o argv[2] \notin DOMAIN fs THEN "missing"
    ELSE fs[cwd \o argv[2]].kind
TargetPerm == IF TargetKind \in {"none", "missing"} THEN "none" ELSE fs[cwd \o argv[2]].perm

\* C15: main of remove_menhir_stanzas returns 0 exactly when it has one
\* positional argument and the read and the write of that file succeeded;
\* it returns 1, with one diagnostic on standard error, on a wrong argument
\* count, a missing file, a read I/O error and a write I/O error.
ExitCodes ==
    /\ mpc = "exit" =>
        /\ rc \in {0, 1}
        /\ rc = 0 <=> (OneArgument /\ TargetKind = "file" /\ TargetPerm = "rw")
        /\ rc = 0 => /\ stderr = <<>>
                     /\ opened = <<<<argv[2], "r">>, <<argv[2], "w">>>>
        /\ rc = 1 =>
            /\ Len(stderr) = 1
            /\ stderr[1].kind = (IF ~OneArgument THEN "usage"
                                 ELSE IF TargetKind = "missing" THEN "not found"
                                 ELSE IF TargetKind = "dir" THEN "reading"
                                 ELSE "writing")
            /\ TargetKind = "file" => TargetPerm = "ro"
    /\ mpc = "raised" => TargetKind = "binary"
    /\ (mpc = "main" /\ pc = "scan") => (OneArgument /\ TargetKind = "file")

ExitCodesWitness ==
    /\ mpc = "exit" /\ rc = 1
    /\ stderr[1].kind = "writing"
    /\ \E k \in DOMAIN units : units[k].kind = "stanza" /\ units[k].out # units[k].text

\* a usage error or a failed read leaves every file as it is: nothing is
\* opened for writing, created or changed, and no count line is printed
EarlyErrorStep ==
    (~OneArgument \/ TargetKind # "file") =>
        /\ fs' = fs
        /\ stdout' = <<>>
        /\ \A k \in DOMAIN opened' : opened'[k][2] # "w"
        /\ ~OneArgument => opened' = <<>>

\* C16: on a usage error main opens no file at all; when the read fails
\* the target is never opened for writing, so it is neither created nor
\* changed, and no count line is printed.
FileSystemUntouched == [][EarlyErrorStep]_vars

FileSystemUntouchedWitness ==
    /\ mpc = "exit" /\ rc = 1
    /\ OneArgument
    /\ TargetKind = "missing"
    /\ stderr = <<Line("not found", argv[2], 0)>>

(***************************************************************************)
(* test-opam-functional.py                                                 *)
(***************************************************************************)
QEMU_FAILURE_PATTERNS ==
    {<<"c","o","r","r","u","p","t","e","d"," ","s","i","z","e"," ","v","s","."," ","p","r","e","v","_","s","i","z","e">>,
     <<"q","e","m","u",":"," ","u","n","c","a","u","g","h","t"," ","t","a","r","g","e","t"," ","s","i","g","n","a","l">>,
     <<"d","o","u","b","l","e"," ","f","r","e","e"," ","o","r"," ","c","o","r","r","u","p","t","i","o","n">>,
     <<"m","a","l","l","o","c","(",")",":"," ","i","n","v","a","l","i","d"," ","s","i","z","e">>}

\* SIGABRT, SIGSEGV, SIGILL
QEMU_FAILURE_SIGNALS == {-6, -11, -4}

QEMU_AFFECTED_ARCHS == {<<"a","a","r","c","h","6","4">>, <<"a","r","m","6","4">>, <<"p","p","c","6","4","l","e">>}

VersionPrefix5 == <<"5", ".">>
VersionPrefix54 == <<"5", ".", "4">>

\* platform.machine().lower() and get_ocaml_version() are machine and
\* ocaml_version
is_qemu_affected_platform ==
    /\ Lower(machine) \in QEMU_AFFECTED_ARCHS
    /\ StartsWith(ocaml_version, VersionPrefix5)
    /\ ~StartsWith(ocaml_version, VersionPrefix54)

is_qemu_failure_any_platform(res) ==
    IF res.returncode \in QEMU_FAILURE_SIGNALS THEN TRUE
    ELSE \E pattern \in QEMU_FAILURE_PATTERNS : Contains(res.stdout \o res.stderr, pattern)

is_qemu_failure(res) ==
    IF ~is_qemu_affected_platform THEN FALSE
    ELSE IF res.returncode \in QEMU_FAILURE_SIGNALS THEN TRUE
    ELSE \E pattern \in QEMU_FAILURE_PATTERNS : Contains(res.stdout \o res.stderr, pattern)

\* the run_cmd calls of main, in order, with their check argument
Step(description, check) == [description |-> description, check |-> check]
UnixSteps ==
    <<Step("opam init", TRUE), Step("opam config list", TRUE),
      Step("switch create", TRUE), Step("list installed", FALSE),
      Step("switch list", TRUE), Step("switch remove", TRUE)>>
WindowsSteps == <<Step("opam config list", TRUE), Step("switch list", TRUE)>>
Steps == IF is_windows THEN WindowsSteps ELSE UnixSteps

CleanupNever == test_root' = test_root

\* the finally clause: shutil.rmtree(test_root) unless on Windows
Cleanup == test_root' = (IF is_windows THEN test_root ELSE FALSE)

\* Windows: the pre-initialized root is no directory; RuntimeError, return 1
TRootMissing ==
    /\ tpc = "start"
    /\ is_windows /\ ~test_root
    /\ rc' = 1
    /\ tpc' = "exit"
    /\ Cleanup
    /\ UNCHANGED <<filtervars, argv, environ, cwd, dirs, fs, mpc, base, dune_path,
                   stdout, stderr, opened, called,
                   all_ok, checked, is_windows, machine, ocaml_version, ran, cmd_result>>

\* Windows: the root is there; Unix: os.makedirs(test_root, exist_ok=True)
TSetup ==
    /\ tpc = "start"
    /\ is_windows => test_root
    /\ test_root' = TRUE
    /\ tpc' = "run"
    /\ UNCHANGED <<filtervars, mainvars, all_ok, checked, is_windows, machine, ocaml_version, ran, cmd_result>>

\* Unix: os.makedirs raises OSError (the directory cannot be created); the
\* exception leaves main through the finally clause
TSetupFails ==
    /\ tpc = "start"
    /\ ~is_windows /\ ~test_root
    /\ tpc' = "raised"
    /\ Cleanup
    /\ UNCHANGED <<filtervars, mainvars, all_ok, checked, is_windows, machine, ocaml_version, ran, cmd_result>>

\* what subprocess.run may give back
CompletedProcess(returncode, out, err) ==
    [returncode |-> returncode, stdout |-> out, stderr |-> err]
ReturnCodes == {0, 1, 2, -4, -6, -9, -11}
Outputs ==
    {<<<<>>, <<>>>>,
     <<<<"c","o","r","r","u","p","t","e","d"," ","s","i","z","e"," ","v","s","."," ","p","r","e","v","_","s","i","z","e">>, <<>>>>,
     <<<<>>, <<"x", " ">> \o <<"q","e","m","u",":"," ","u","n","c","a","u","g","h","t"," ","t","a","r","g","e","t"," ","s","i","g","n","a","l">>>>,
     <<<<>>, <<"d","o","u","b","l","e"," ","f","r","e","e"," ","o","r"," ","c","o","r","r","u","p","t","i","o","n">>>>,
     <<<<"m","a","l","l","o","c","(",")",":"," ","i","n","v","a","l","i","d"," ","s","i","z","e">>, <<>>>>,
     <<<<"D","o","u","b","l","e"," ","f","r","e","e"," ","o","r"," ","c","o","r","r","u","p","t","i","o","n">>, <<>>>>,
     <<<<"o", "k">>, <<"w", "a", "r", "n">>>>}
Results == {CompletedProcess(r, o[1], o[2]) : r \in ReturnCodes, o \in Outputs}

Ran(step, res) == [description |-> step.description, returncode |-> res.returncode]

\* run_cmd returns: the command exited with 0, or check is False
TStepReturns ==
    /\ tpc = "run"
    /\ Len(ran) < Len(Steps)
    /\ \E res \in Results :
        LET step == Steps[Len(ran) + 1] IN
        /\ ~(res.returncode # 0 /\ step.check)
        /\ ran' = Append(ran, Ran(step, res))
        /\ cmd_result' = res
    /\ UNCHANGED <<filtervars, mainvars, all_ok, checked, is_windows, machine, ocaml_version, test_root, tpc>>

\* run_cmd raises QemuFailure: main returns 0
TStepQemu ==
    /\ tpc = "run"
    /\ Len(ran) < Len(Steps)
    /\ \E res \in Results :
        LET step == Steps[Len(ran) + 1] IN
        /\ res.returncode # 0 /\ step.check
        /\ is_qemu_failure(res)
        /\ ran' = Append(ran, Ran(step, res))
        /\ cmd_result' = res
    /\ rc' = 0
    /\ tpc' = "exit"
    /\ Cleanup
    /\ UNCHANGED <<filtervars, argv, environ, cwd, dirs, fs, mpc, base, dune_path,
                   stdout, stderr, opened, called, all_ok, checked, is_windows, machine, ocaml_version>>

\* run_cmd raises RuntimeError: main returns 1
TStepFails ==
    /\ tpc = "run"
    /\ Len(ran) < Len(Steps)
    /\ \E res \in Results :
        LET step == Steps[Len(ran) + 1] IN
        /\ res.returncode # 0 /\ step.check
        /\ ~is_qemu_failure(res)
        /\ ran' = Append(ran, Ran(step, res))
        /\ cmd_result' = res
    /\ rc' = 1
    /\ tpc' = "exit"
    /\ Cleanup
    /\ UNCHANGED <<filtervars, argv, environ, cwd, dirs, fs, mpc, base, dune_path,
                   stdout, stderr, opened, called, all_ok, checked, is_windows, machine, ocaml_version>>

\* subprocess.run itself raises (no opam on PATH): the exception leaves main
TSpawnFails ==
    /\ tpc = "run"
    /\ Len(ran) < Len(Steps)
    /\ tpc' = "raised"
    /\ Cleanup
    /\ UNCHANGED <<filtervars, mainvars, all_ok, checked, is_windows, machine, ocaml_version, ran, cmd_result>>

\* every step is over: return 0
TPassed ==
    /\ tpc = "run"
    /\ Len(ran) = Len(Steps)
    /\ rc' = 0
    /\ tpc' = "exit"
    /\ Cleanup
    /\ UNCHANGED <<filtervars, argv, environ, cwd, dirs, fs, mpc, base, dune_path,
                   stdout, stderr, opened, called,
                   all_ok, checked, is_windows, machine, ocaml_version, ran, cmd_result>>

Machines == {<<"x","8","6","_","6","4">>, <<"a","a","r","c","h","6","4">>, <<"A","R","M","6","4">>, <<"p","p","c","6","4","l","e">>}
OcamlVersions == {<<"4",".","1","4",".","2">>, <<"5",".","3",".","0">>, <<"5",".","4",".","1">>, <<"5",".","5",".","0">>, <<"u","n","k","n","o","w","n">>}

InitFunctional ==
    /\ FilterIdle("A") /\ MainIdle
    /\ is_windows \in BOOLEAN
    /\ machine \in Machines
    /\ ocaml_version \in OcamlVersions
    /\ test_root \in BOOLEAN
    /\ tpc = "start"
    /\ ran = <<>>
    /\ cmd_result = <<>>
    /\ all_ok = TRUE /\ checked = <<>>

NextFunctional ==
    \/ TRootMissing
    \/ TSetup
    \/ TSetupFails
    \/ TStepReturns
    \/ TStepQemu
    \/ TStepFails
    \/ TSpawnFails
    \/ TPassed

SpecFunctional == InitFunctional /\ [][NextFunctional]_vars

\* the opam steps as the documentation lists them
ListedSteps ==
    <<"opam init", "opam config list", "switch create", "list installed",
      "switch list", "switch remove">>
Unchecked == {"list installed"}

\* the descriptions of the steps main ran, in order
RanNames == [k \in DOMAIN ran |-> ran[k].description]

\* the last step main ran was checked and exited non-zero
LastFailed ==
    /\ ran # <<>>
    /\ ran[Len(ran)].description \notin Unchecked
    /\ ran[Len(ran)].returncode # 0

\* no step before the last was a checked step that exited non-zero
EarlierPassed ==
    \A k \in 1..(Len(ran) - 1) :
        ran[k].description \in Unchecked \/ ran[k].returncode = 0

\* the last result shows a QEMU failure: affected platform, and a crash
\* signal or a corruption pattern in what the command wrote
QemuResult ==
    /\ is_qemu_affected_platform
    /\ \/ cmd_result.returncode \in {-6, -11, -4}
       \/ \E pattern \in QEMU_FAILURE_PATTERNS :
             Contains(cmd_result.stdout, pattern) \/ Contains(cmd_result.stderr, pattern)

\* C20 as stated: the steps run in the listed order, init on Unix only, up to
\* the first checked step that exits non-zero; main returns 0 when every
\* checked step succeeded or the failing step is a QEMU failure, and 1 for
\* every other failing checked step.
FunctionalOutcomeAsStated ==
    tpc = "exit" =>
        LET listed == IF is_windows THEN Tail(ListedSteps) ELSE ListedSteps IN
        /\ Len(ran) <= Len(listed)
        /\ RanNames = SubSeq(listed, 1, Len(ran))
        /\ EarlierPassed
        /\ IF LastFailed THEN rc = (IF QemuResult THEN 0 ELSE 1)
           ELSE Len(ran) = Len(listed) /\ rc = 0

\* C20, amended: on Unix main runs init, config list, switch create, list
\* installed, switch list and switch remove in this order; on Windows it
\* returns 1 at once when the pre-initialized root is no directory and
\* otherwise runs only config list and switch list; it stops at the first
\* checked step that exits non-zero, returns 0 when every checked step
\* succeeded, 0 when the failing step is a QEMU failure and 1 for every other
\* failing checked step; the unchecked list installed step never affects the
\* result.
FunctionalOutcome ==
    tpc = "exit" =>
        LET listed == IF is_windows THEN <<"opam config list", "switch list">>
                      ELSE ListedSteps
        IN
        /\ Len(ran) <= Len(listed)
        /\ RanNames = SubSeq(listed, 1, Len(ran))
        /\ EarlierPassed
        /\ IF is_windows /\ ~test_root THEN ran = <<>> /\ rc = 1
           ELSE IF LastFailed THEN rc = (IF QemuResult THEN 0 ELSE 1)
           ELSE Len(ran) = Len(listed) /\ rc = 0

FunctionalOutcomeWitness ==
    /\ tpc = "exit" /\ rc = 0
    /\ is_qemu_affected_platform
    /\ Len(ran) = 5
    /\ ran[4].description = "list installed" /\ ran[4].returncode = -11
    /\ cmd_result.returncode = 1
    /\ QemuResult

\* main is over: it returned, or an exception left it
Finished == tpc \in {"exit", "raised"}

\* C21: on a platform other than Windows the temporary test root is gone
\* whenever main is over, however it ended (all steps passed, QEMU skip,
\* RuntimeError, any other exception); on Windows no step of main deletes
\* the pre-initialized root.
FunctionalCleanup ==
    /\ [](Finished /\ ~is_windows => ~test_root)
    /\ [][is_windows => test_root' = test_root]_vars

\* an exception that is neither QemuFailure nor RuntimeError left main on
\* Unix after three steps had run in the test root, and the root is gone
FunctionalCleanupWitness ==
    /\ tpc = "raised"
    /\ ~is_windows
    /\ Len(ran) = 3
    /\ ~test_root

\* the decimal number a text of digits denotes, -1 when it is no number
NumberOf(digits) ==
    IF digits = <<>> \/ \E k \in DOMAIN digits : digits[k] \notin Range(DigitChars) THEN -1
    ELSE LET value(c) == CHOOSE n \in 0..9 : DigitChars[n + 1] = c
             sums == PrefixSums([k \in DOMAIN digits |->
                                   value(digits[k]) * 10 ^ (Len(digits) - k)])
         IN sums[Len(digits)]

\* the positions of the dots of a version text, and its first two fields
DotsOf(version) == {k \in DOMAIN version : version[k] = "."} \cup {Len(version) + 1}
MajorOf(version) == NumberOf(SubSeq(version, 1, SetMin(DotsOf(version)) - 1))
MinorOf(version) ==
    LET first == SetMin(DotsOf(version)) IN
    IF first > Len(version) THEN -1
    ELSE NumberOf(SubSeq(version, first + 1, SetMin(DotsOf(version) \ {first}) - 1))

\* OCaml 5.x older than 5.4.0, and OCaml 5.4.0 or later
OlderThan540 == MajorOf(ocaml_version) = 5 /\ MinorOf(ocaml_version) \in 0..3
AtLeast540 ==
    \/ MajorOf(ocaml_version) > 5
    \/ MajorOf(ocaml_version) = 5 /\ MinorOf(ocaml_version) >= 4

\* C22: is_qemu_affected_platform is true only for aarch64, arm64 or ppc64le
\* with an OCaml 5.x older than 5.4.0; with OCaml 5.4.0 or later the platform
\* is never classified as affected, is_qemu_failure is false for the result
\* of every command, and a failing checked command makes main return 1.
QemuClassification ==
    /\ is_qemu_affected_platform =>
            Lower(machine) \in QEMU_AFFECTED_ARCHS /\ OlderThan540
    /\ AtLeast540 =>
            /\ ~is_qemu_affected_platform
            /\ cmd_result # <<>> => ~is_qemu_failure(cmd_result)
            /\ tpc = "exit" /\ LastFailed => rc = 1

(***************************************************************************)
(* A filter run a second time on the file its first run wrote.             *)
(***************************************************************************)
MaxChunksRerun == 4

\* what a finished run leaves: the text it read, the text it wrote, the
\* count it printed and the units it scanned
Left == [input |-> content, output |-> file, reported |-> reported, units |-> units]

\* the script is started again on the same file: a new process, whose
\* locals start as in the first
RunAgain ==
    /\ pc = "done"
    /\ previous = <<>>
    /\ previous' = <<Left>>
    /\ pc' = "start"
    /\ content' = <<>> /\ lines' = <<>> /\ i' = 0 /\ result' = <<>>
    /\ removed_count' = 0 /\ reported' = -1 /\ units' = <<>>
    /\ UNCHANGED <<mode, file>>

OpenContextFlags == <<"(">> \o MixedContextFlags
RemovedOpen == RemovedMark \o <<" ", "(">>

ChunksRerunA ==
    {<<"(">>, <<")">>, <<"\n">>, <<";">>, <<"c">>, OpenContextFlags, DisabledPrefix}
ChunksRerunB ==
    {HeadMenhir, HeadRule, WordMenhir, <<")">>, <<"\n">>, <<" ">>, RemovedOpen}

InputsRerunA == Texts(ChunksRerunA, MaxChunksRerun) \cup KeywordStanzasA \cup {ScenarioA}
InputsRerunB == Texts(ChunksRerunB, MaxChunksRerun) \cup {ScenarioB, ScenarioRule}

InitRerun ==
    /\ MainIdle /\ TestIdle
    /\ mode \in {"A", "B"}
    /\ file \in (IF mode = "A" THEN InputsRerunA ELSE InputsRerunB)
    /\ pc = "start"
    /\ content = <<>>
    /\ lines = <<>>
    /\ i = 0
    /\ result = <<>>
    /\ removed_count = 0
    /\ reported = -1
    /\ units = <<>>
    /\ previous = <<>>

NextRerun ==
    \/ AReadFile /\ UNCHANGED <<mainvars, testvars>>
    \/ AWhitespace /\ UNCHANGED <<mainvars, testvars>>
    \/ AComment /\ UNCHANGED <<mainvars, testvars>>
    \/ ASexp /\ UNCHANGED <<mainvars, testvars>>
    \/ AStray /\ UNCHANGED <<mainvars, testvars>>
    \/ AWriteFile /\ UNCHANGED <<mainvars, testvars>>
    \/ BReadFile /\ UNCHANGED <<mainvars, testvars>>
    \/ BStanza /\ UNCHANGED <<mainvars, testvars>>
    \/ BLine /\ UNCHANGED <<mainvars, testvars>>
    \/ BWriteFile /\ UNCHANGED <<mainvars, testvars>>
    \/ RunAgain /\ UNCHANGED <<mainvars, testvars>>

SpecRerun == InitRerun /\ [][NextRerun]_vars

\* the second run of a filter is over
SecondDone == pc = "done" /\ previous # <<>>

\* the number of characters the first run wrote before what it emitted for
\* its unit k
FirstOutOff(k) == Len(Concat([m \in 1..(k - 1) |-> previous[1].units[m].out]))

\* C23: the character filter applied to its own output writes the same text
\* again and reports 0 removed stanzas: every marker the first run wrote is,
\* up to its newline, one comment of the second run, copied as it is, and the
\* second run rewrites no unit.
IdempotentContextFlags ==
    (mode = "A" /\ SecondDone) =>
        /\ file = previous[1].output
        /\ reported = 0
        /\ \A m \in DOMAIN units : units[m].out = units[m].text
        /\ \A k \in DOMAIN previous[1].units :
              LET u == previous[1].units[k] IN
              (u.kind = "sexp" /\ ShouldRemove(u.text)) =>
                  \E m \in DOMAIN units :
                      /\ units[m].kind = "comment"
                      /\ Offset(m) = FirstOutOff(k)
                      /\ units[m].text \o <<"\n">> = u.out

\* the first run kept one expression and removed another, whose marker the
\* second run read as a comment
IdempotentContextFlagsWitness ==
    /\ mode = "A" /\ SecondDone
    /\ previous[1].reported >= 1
    /\ previous[1].output # previous[1].input
    /\ \E m \in DOMAIN units : units[m].kind = "sexp"
    /\ \E m \in DOMAIN units :
          units[m].kind = "comment" /\ StartsWith(units[m].text, DisabledPrefix)

\* the stanzas among the units us that satisfy keep, each with the number of
\* lines before it
Spans(us, keep(_)) ==
    {<<Len(Concat([m \in 1..(k - 1) |-> us[m].text])), us[k].text>> :
        k \in {n \in DOMAIN us : us[n].kind = "stanza" /\ keep(us[n])}}
StanzaSpans(us) == Spans(us, LAMBDA u : TRUE)
KeptSpans(us) == Spans(us, LAMBDA u : u.out = u.text)

\* C24: the line filter applied to its own output returns that output: the
\* second run passes every line through unchanged, the lines that start with
\* "; REMOVED (" among them, and its stanzas are the stanzas the first run
\* kept, each made of the same lines at the same place.
IdempotentMenhir ==
    (mode = "B" /\ SecondDone) =>
        /\ file = previous[1].output
        /\ \A m \in DOMAIN units : units[m].out = units[m].text
        /\ \A m \in DOMAIN units : \A n \in DOMAIN units[m].text :
              StartsWith(units[m].text[n], RemovedOpen) =>
                  Split(file)[Offset(m) + n] = units[m].text[n]
        /\ StanzaSpans(units) = KeptSpans(previous[1].units)

\* the first run kept a stanza and commented another out, and the second run
\* read the commented line as a plain line
IdempotentMenhirWitness ==
    /\ mode = "B" /\ SecondDone
    /\ previous[1].output # previous[1].input
    /\ \E m \in DOMAIN units : units[m].kind = "stanza"
    /\ \E m \in DOMAIN units :
          units[m].kind = "line" /\ StartsWith(units[m].text[1], RemovedOpen)
    /\ \E k \in DOMAIN previous[1].units :
          previous[1].units[k].kind = "stanza"
             /\ previous[1].units[k].out # previous[1].units[k].text

(***************************************************************************)
(* The two scanners on one text: the character scanner first, then the     *)
(* line scanner on the text the character scanner read.                    *)
(***************************************************************************)
MaxChunksAgree == 4

\* the line scanner is given the text the character scanner was given
ScanWithLines ==
    /\ mode = "A" /\ pc = "done"
    /\ previous = <<>>
    /\ previous' = <<Left>>
    /\ mode' = "B"
    /\ file' = content
    /\ pc' = "start"
    /\ content' = <<>> /\ lines' = <<>> /\ i' = 0 /\ result' = <<>>
    /\ removed_count' = 0 /\ reported' = -1 /\ units' = <<>>

ChunksAgree ==
    {<<"(">>, <<")">>, <<"\n">>, <<";">>, <<" ">>, <<"a">>,
     <<"(", "b", ")", "\n">>, <<";", "(", "\n">>}

\* a comment, an expression over two lines, a blank line, an expression
WellFormedSample ==
    <<";"," ","c","\n","(","a","\n"," "," ","(","b",")",")","\n"," ","\n","(","c",")","\n">>

InputsAgree == Texts(ChunksAgree, MaxChunksAgree) \cup {WellFormedSample, ScenarioA, ScenarioB}

InitAgree ==
    /\ MainIdle /\ TestIdle
    /\ mode = "A"
    /\ file \in InputsAgree
    /\ pc = "start"
    /\ content = <<>>
    /\ lines = <<>>
    /\ i = 0
    /\ result = <<>>
    /\ removed_count = 0
    /\ reported = -1
    /\ units = <<>>
    /\ previous = <<>>

NextAgree ==
    \/ AReadFile /\ UNCHANGED <<mainvars, testvars>>
    \/ AWhitespace /\ UNCHANGED <<mainvars, testvars>>
    \/ AComment /\ UNCHANGED <<mainvars, testvars>>
    \/ ASexp /\ UNCHANGED <<mainvars, testvars>>
    \/ AStray /\ UNCHANGED <<mainvars, testvars>>
    \/ AWriteFile /\ UNCHANGED <<mainvars, testvars>>
    \/ ScanWithLines /\ UNCHANGED <<mainvars, testvars>>
    \/ BReadFile /\ UNCHANGED <<mainvars, testvars>>
    \/ BStanza /\ UNCHANGED <<mainvars, testvars>>
    \/ BLine /\ UNCHANGED <<mainvars, testvars>>
    \/ BWriteFile /\ UNCHANGED <<mainvars, testvars>>

SpecAgree == InitAgree /\ [][NextAgree]_vars

\* both scanners are over; previous[1] is what the character scanner left
BothDone == mode = "B" /\ pc = "done" /\ previous # <<>>

\* the number of characters before unit k of the character scanner
CharOff(us, k) == Len(Concat([m \in 1..(k - 1) |-> us[m].text]))

\* the text is well formed: the character scanner met no stray character,
\* and each of its top-level expressions is closed, starts at column 0 of
\* a line and ends with the last character of a line; every other line is
\* then blank or a comment line
WellFormed(text, us) ==
    \A k \in DOMAIN us :
        /\ us[k].kind # "stray"
        /\ us[k].kind = "sexp" =>
              LET from == CharOff(us, k)
                  to == from + Len(us[k].text)
              IN /\ Count(us[k].text, "(") = Count(us[k].text, ")")
                 /\ (from = 0 \/ At(text, from - 1) = "\n")
                 /\ (to = Len(text) \/ At(text, to) = "\n")

\* the top-level units of the character scanner other than whitespace, each
\* with its kind, the index of its first character and its text
CharSpans(us) ==
    {<<IF us[k].kind = "sexp" THEN "expression" ELSE "comment",
       CharOff(us, k), us[k].text>> :
        k \in {n \in DOMAIN us : us[n].kind \in {"sexp", "comment"}}}

\* the index of the first character of line n (0-based) of the text
LineStart(n) == IF n = 0 THEN 0 ELSE Len(Join(SubSeq(lines, 1, n))) + 1

\* the number of blanks a line starts with
Indent(line) ==
    SetMin({p \in 1..(Len(line) + 1) :
               p = Len(line) + 1 \/ line[p] \notin ScanWhitespace}) - 1

\* the top-level units of the line scanner other than blank lines, with
\* kind, first character and text: a stanza from its "(" to the end of its
\* last line, another line from its first character that is no blank
LineSpans ==
    {<<"expression", LineStart(Offset(k)), Join(units[k].text)>> :
        k \in {n \in DOMAIN units : units[n].kind = "stanza"}}
    \cup
    {<<"comment", LineStart(Offset(k)) + Indent(units[k].text[1]),
       SubSeq(units[k].text[1], Indent(units[k].text[1]) + 1, Len(units[k].text[1]))>> :
        k \in {n \in DOMAIN units :
                  units[n].kind = "line" /\ Indent(units[n].text[1]) < Len(units[n].text[1])}}

\* C25: on a well-formed text the character scanner and the line scanner
\* find the same top-level units, each of the same kind, at the same place
\* and with the same text.
ScannersAgree ==
    (BothDone /\ WellFormed(content, previous[1].units)) =>
        LineSpans = CharSpans(previous[1].units)

\* a well-formed text with a comment line, a blank line and two expressions,
\* one of them over two lines
ScannersAgreeWitness ==
    /\ BothDone /\ WellFormed(content, previous[1].units)
    /\ Cardinality({k \in DOMAIN units : units[k].kind = "stanza"}) >= 2
    /\ \E k \in DOMAIN units : units[k].kind = "stanza" /\ Len(units[k].text) >= 2
    /\ \E k \in DOMAIN units : units[k].kind = "line" /\ StartsWith(units[k].text[1], <<";">>)
    /\ \E k \in DOMAIN units :
          units[k].kind = "line" /\ units[k].text[1] # <<>> /\ Strip(units[k].text[1]) = <<>>

(***************************************************************************)
(* test-opam-activation.py                                                 *)
(***************************************************************************)
\* conda_prefix; "" when CONDA_PREFIX is not set
conda_prefix == EnvGet(environ, "CONDA_PREFIX", <<>>)

\* Windows uses Library\share\opam, Unix uses share/opam
expected_root ==
    IF is_windows THEN conda_prefix \o <<"Library", "share", "opam">>
    ELSE conda_prefix \o <<"share", "opam">>

opam_root == EnvGet(environ, "OPAMROOT", <<>>)
switch_path == opam_root \o <<"conda", ".opam-switch">>

check_env(name, expected) == EnvGet(environ, name, <<>>) = expected

\* os.path.isdir(path); the empty path names no directory
check_dir_exists(path) == IF path = <<>> THEN FALSE ELSE IsDir(path)

\* the five checks of main in the order of lines 129-138
CheckNames ==
    <<"OPAMROOT", "OPAMSWITCH", "OPAMNOENVNOTICE", "OPAMROOT directory",
      "conda switch structure">>
CheckResult(k) ==
    IF k = 1 THEN check_env("OPAMROOT", expected_root)
    ELSE IF k = 2 THEN check_env("OPAMSWITCH", <<"conda">>)
    ELSE IF k = 3 THEN check_env("OPAMNOENVNOTICE", <<"true">>)
    ELSE IF k = 4 THEN check_dir_exists(opam_root)
    ELSE check_dir_exists(switch_path)

WordConda == <<"c", "o", "n", "d", "a">>

\* CONDA_PREFIX is not set or empty: return 1
ActNoPrefix ==
    /\ tpc = "start"
    /\ conda_prefix = <<>>
    /\ rc' = 1
    /\ tpc' = "exit"
    /\ UNCHANGED <<filtervars, argv, environ, cwd, dirs, fs, mpc, base, dune_path,
                   stdout, stderr, opened, called,
                   all_ok, checked, is_windows, machine, ocaml_version, test_root, ran,
                   cmd_result>>

\* all_ok = True
ActBegin ==
    /\ tpc = "start"
    /\ conda_prefix # <<>>
    /\ all_ok' = TRUE
    /\ tpc' = "checks"
    /\ UNCHANGED <<filtervars, mainvars, checked, is_windows, machine, ocaml_version,
                   test_root, ran, cmd_result>>

\* all_ok &= check_env(...) or check_dir_exists(...): the next check
ActCheck ==
    /\ tpc = "checks"
    /\ Len(checked) < Len(CheckNames)
    /\ \E ok \in {CheckResult(Len(checked) + 1)} :
         /\ checked' = Append(checked, [name |-> CheckNames[Len(checked) + 1], ok |-> ok])
         /\ all_ok' = (all_ok /\ ok)
    /\ UNCHANGED <<filtervars, mainvars, is_windows, machine, ocaml_version,
                   test_root, tpc, ran, cmd_result>>

\* opam switch list failed with a QEMU failure: return 0
ActSkipQemu ==
    /\ tpc = "checks"
    /\ Len(checked) = Len(CheckNames)
    /\ \E res \in Results :
         /\ res.returncode # 0 /\ is_qemu_failure(res)
         /\ cmd_result' = res
    /\ rc' = 0
    /\ tpc' = "exit"
    /\ UNCHANGED <<filtervars, argv, environ, cwd, dirs, fs, mpc, base, dune_path,
                   stdout, stderr, opened, called,
                   all_ok, checked, is_windows, machine, ocaml_version, test_root, ran>>

\* any other result of opam switch list: all_ok = False when "conda" is not
\* in its stdout, then return 0 if all_ok else 1
ActVerdict ==
    /\ tpc = "checks"
    /\ Len(checked) = Len(CheckNames)
    /\ \E res \in Results :
         /\ ~(res.returncode # 0 /\ is_qemu_failure(res))
         /\ cmd_result' = res
         /\ all_ok' = IF ~Contains(res.stdout, WordConda) THEN FALSE ELSE all_ok
    /\ rc' = IF all_ok' THEN 0 ELSE 1
    /\ tpc' = "exit"
    /\ UNCHANGED <<filtervars, argv, environ, cwd, dirs, fs, mpc, base, dune_path,
                   stdout, stderr, opened, called,
                   checked, is_windows, machine, ocaml_version, test_root, ran>>

\* subprocess.run itself raises (no opam on PATH): the exception leaves main
ActSpawnFails ==
    /\ tpc = "checks"
    /\ Len(checked) = Len(CheckNames)
    /\ tpc' = "raised"
    /\ UNCHANGED <<filtervars, mainvars, all_ok, checked, is_windows, machine,
                   ocaml_version, test_root, ran, cmd_result>>

\* the environments, directories and command results explored
Prefix == <<"", "p">>
EnvNames == {"CONDA_PREFIX", "OPAMROOT", "OPAMSWITCH", "OPAMNOENVNOTICE"}
Roots == {Prefix \o <<"share", "opam">>, Prefix \o <<"Library", "share", "opam">>}
EnvValues ==
    [CONDA_PREFIX : {Prefix},
     OPAMROOT : Roots,
     OPAMSWITCH : {<<"conda">>, <<"default">>},
     OPAMNOENVNOTICE : {<<"true">>, <<"1">>}]
ActivationMachines == {<<"x","8","6","_","6","4">>, <<"a","a","r","c","h","6","4">>}
ActivationVersions == {<<"5",".","3",".","0">>, <<"5",".","4",".","1">>}

InitActivation ==
    /\ FilterIdle("A")
    /\ argv = <<>>
    /\ environ \in {[k \in S |-> v[k]] : S \in SUBSET EnvNames, v \in EnvValues}
    /\ cwd = WorkRoot
    /\ \E r \in Roots :
          dirs \in SUBSET {r, r \o <<"conda", ".opam-switch">>}
    /\ fs = <<>>
    /\ mpc = "idle" /\ base = <<>> /\ dune_path = <<>>
    /\ stdout = <<>> /\ stderr = <<>> /\ opened = <<>> /\ called = <<>> /\ rc = -1
    /\ is_windows \in BOOLEAN
    /\ machine \in ActivationMachines
    /\ ocaml_version \in ActivationVersions
    /\ test_root = FALSE
    /\ tpc = "start"
    /\ ran = <<>>
    /\ cmd_result = <<>>
    /\ all_ok = TRUE /\ checked = <<>>

NextActivation ==
    \/ ActNoPrefix
    \/ ActBegin
    \/ ActCheck
    \/ ActSkipQemu
    \/ ActVerdict
    \/ ActSpawnFails

SpecActivation == InitActivation /\ [][NextActivation]_vars

\* C26: once CONDA_PREFIX is set, main evaluates the three environment
\* checks and the two directory checks, all five whatever their results; when
\* one of them failed main returns 1 whatever opam switch list reported, and
\* main returns 0 only when all five passed.
ActivationVerdict ==
    (tpc = "exit" /\ conda_prefix # <<>>) =>
        /\ [k \in DOMAIN checked |-> checked[k].name] = CheckNames
        /\ (\E k \in DOMAIN checked : ~checked[k].ok) => rc = 1
        /\ rc = 0 => \A k \in DOMAIN checked : checked[k].ok

====
